---- MODULE Spec2Model ----
(***************************************************************************)
(* Model of the translation core of silvired/book-audio-translate:         *)
(*   ChunkMapper      src/translation/chunk_mapper.py                      *)
(*   Translator       src/translation/translator.py                        *)
(*   BookTranslator   src/translation/translate_book.py                    *)
(*                                                                         *)
(* Three specifications share the module:                                  *)
(*   SpecMap  the packing loop of ChunkMapper.map_chunk_paragraphs, one    *)
(*            loop iteration per step;                                     *)
(*   SpecTr   a Translator receiving a sequence of translate_text calls;   *)
(*   Spec     BookTranslator.run from the mapping step to the saved files. *)
(* A Python dict is modelled as a sequence of <<key, value>> entries in    *)
(* insertion order; the key "chunk<n>" is modelled by the number n.        *)
(***************************************************************************)
EXTENDS Integers, Sequences, FiniteSets, TLC

VARIABLES
    mapper,          \* ChunkMapper fields: max_output_token, ratio (num/den)
    paragraphs_data, \* the argument of map_chunk_paragraphs
    packing,         \* locals of map_chunk_paragraphs and its position
    environ,         \* os.environ keys and model_api_mapping.json
    translator,      \* Translator fields
    trcall,          \* SpecTr: the last translate_text call and its result
    book,            \* BookTranslator running totals
    run,             \* locals of BookTranslator.run and its position
    files,           \* what run has written to disk
    events,          \* history: translate_text calls and sleeps, in order
    calculator,      \* CostCalculator fields and the breakdowns it returned
    counting,        \* a TokenCounter call: arguments and result
    merging          \* locals of MergeAudioChunks.merge_chunks, the files it wrote

vars == <<mapper, paragraphs_data, packing, environ, translator, trcall,
          book, run, files, events,
         calculator, counting, merging>>

-----------------------------------------------------------------------------
(* Bounds of the model.                                                    *)

\* longest paragraph sequence given to the mapper
MaxPar == 3
\* largest token count of one paragraph
MaxTok == 4
\* largest max_output_token of a model configuration
MaxOut == 6
\* longest paragraph sequence of a book given to BookTranslator.run
RunMaxPar == 2
\* most rows of a paragraph count table given to count_chunk_input_tokens
MaxCountRows == 2
\* most paragraph ids of one chunk of a mapping given to it
MaxChunkIds == 2
\* most chunks of the data given to estimate_output_thinking_tokens
MaxEstChunks == 2
\* most paragraphs of the segmented file given to count_tokens_for_segmented_file
MaxSegPar == 2
\* largest totalTokens the countTokens endpoint answers (a paragraph has at
\* most two sentences, so at most two estimated tokens)
MaxSegCount == 2
\* most audio files in the input directory of merge_chunks
MaxAudio == 3
\* longest audio chunk and largest target duration, in units of a millisecond
MaxAudioLen == 2
MaxTarget == 3
\* most operations made on one CostCalculator in SpecCost
MaxCostOps == 3
\* most translate_text calls made on one Translator in SpecTr
MaxCalls == 3

\* output_input_token_ratio values, as <<numerator, denominator>> of the
\* decimal written in the configuration
Ratios == {<<1, 1>>, <<5, 4>>, <<1, 2>>}
MaxOutputTokens == (0 - 1)..MaxOut
TokenCounts == 0..MaxTok

\* model configurations of a run: ceilings 0 and 5. With paragraphs of 2
\* tokens the first puts every paragraph in its own chunk, the second packs
\* two paragraphs per chunk.
RunMappers == {[max_output_token |-> 1, ratio |-> <<1, 1>>],
               [max_output_token |-> 7, ratio |-> <<1, 1>>]}
RunTokenCounts == {2}

\* a book of 23 paragraphs of 50 tokens under max_output_token 500, ratio 1.0
ScenarioMapper == [max_output_token |-> 500, ratio |-> <<1, 1>>]
ScenarioTokens == [i \in 1..23 |-> 50]

\* a configuration whose ratio, 1.12, is no binary fraction, and a short book
DecimalRatioMapper == [max_output_token |-> 21, ratio |-> <<28, 25>>]
DecimalRatioTokens == <<7, 7>>

\* every configuration a ChunkMapper is built with
MapperConfigs ==
    {[max_output_token |-> mo, ratio |-> r] : mo \in MaxOutputTokens, r \in Ratios}
        \cup RunMappers \cup {ScenarioMapper, DecimalRatioMapper}

-----------------------------------------------------------------------------
(* Generic helpers: Python dict and list operations.                       *)

\* d.keys(), in insertion order
DictKeys(d) == [i \in 1..Len(d) |-> d[i][1]]

DictHas(d, k) == \E i \in 1..Len(d) : d[i][1] = k

\* d[k] for a key that is present
DictGet(d, k) == d[CHOOSE i \in 1..Len(d) : d[i][1] = k][2]

\* d.get(k, default)
DictGetOr(d, k, default) == IF DictHas(d, k) THEN DictGet(d, k) ELSE default

\* d[k] = v: overwrite in place when k is present, else insert at the end
DictSet(d, k, v) ==
    IF DictHas(d, k)
    THEN [i \in 1..Len(d) |-> IF d[i][1] = k THEN <<k, v>> ELSE d[i]]
    ELSE Append(d, <<k, v>>)

\* the set of sequences over S of length at most n
SeqsUpTo(S, n) == UNION {[1..k -> S] : k \in 0..n}

RECURSIVE Concat(_)
\* the concatenation of a sequence of sequences
Concat(ss) == IF ss = <<>> THEN <<>> ELSE Head(ss) \o Concat(Tail(ss))

RECURSIVE SumSeq(_)
SumSeq(s) == IF s = <<>> THEN 0 ELSE Head(s) + SumSeq(Tail(s))

-----------------------------------------------------------------------------
(* IEEE 754 binary64 arithmetic, as CPython's float performs it.           *)
(* A natural number of any size is a sequence of limbs (digits in base     *)
(* 2^LimbBits), least significant first, without a most significant 0.     *)
(* A double >= 0 is [m, e]: the value m * 2^e, m of exactly Precision bits *)
(* or 0 (the doubles met here are normal, far from overflow and            *)
(* underflow).                                                             *)

\* bits of the significand of a double
Precision == 53
\* bits of one limb: the product of two limbs fits a machine integer
LimbBits == 13
Base == 2^LimbBits

\* F(v), with v evaluated once however often F uses its argument
Eval(v, F(_)) == CHOOSE r \in {F(x) : x \in {v}} : TRUE

RECURSIVE NatOf(_)
NatOf(n) == IF n = 0 THEN <<>> ELSE <<n % Base>> \o NatOf(n \div Base)

RECURSIVE NatToIntFrom(_, _)
NatToIntFrom(a, i) == IF i > Len(a) THEN 0 ELSE a[i] + Base * NatToIntFrom(a, i + 1)

NatToInt(a) == Eval(a, LAMBDA v : NatToIntFrom(v, 1))

\* a without its most significant zero limbs
NatNorm(a) ==
    Eval(a, LAMBDA v :
        IF \A i \in 1..Len(v) : v[i] = 0 THEN <<>>
        ELSE SubSeq(v, 1, CHOOSE k \in 1..Len(v) :
                              v[k] # 0 /\ \A j \in (k + 1)..Len(v) : v[j] = 0))

LimbAt(a, i) == IF i <= Len(a) THEN a[i] ELSE 0

RECURSIVE NatAddFrom(_, _, _, _)
NatAddFrom(a, b, i, carry) ==
    IF i > Len(a) /\ i > Len(b)
    THEN IF carry = 0 THEN <<>> ELSE <<carry>>
    ELSE Eval(LimbAt(a, i) + LimbAt(b, i) + carry, LAMBDA sum :
             <<sum % Base>> \o NatAddFrom(a, b, i + 1, sum \div Base))

NatAdd(a, b) == Eval(<<a, b>>, LAMBDA v : NatAddFrom(v[1], v[2], 1, 0))

RECURSIVE NatSubFrom(_, _, _, _)
NatSubFrom(a, b, i, borrow) ==
    IF i > Len(a) THEN <<>>
    ELSE Eval(LimbAt(a, i) - LimbAt(b, i) - borrow, LAMBDA diff :
             <<(diff + Base) % Base>>
                 \o NatSubFrom(a, b, i + 1, IF diff < 0 THEN 1 ELSE 0))

\* a - b for a >= b
NatSub(a, b) == Eval(<<a, b>>, LAMBDA v : NatNorm(NatSubFrom(v[1], v[2], 1, 0)))

\* a < b
NatLess(a, b) ==
    Eval(<<a, b>>, LAMBDA v :
        IF Len(v[1]) # Len(v[2]) THEN Len(v[1]) < Len(v[2])
        ELSE \E i \in 1..Len(v[1]) :
                /\ v[1][i] < v[2][i]
                /\ \A j \in (i + 1)..Len(v[1]) : v[1][j] = v[2][j])

RECURSIVE NatMulSmallFrom(_, _, _, _)
NatMulSmallFrom(a, k, i, carry) ==
    IF i > Len(a)
    THEN IF carry = 0 THEN <<>> ELSE <<carry>>
    ELSE Eval(a[i] * k + carry, LAMBDA prod :
             <<prod % Base>> \o NatMulSmallFrom(a, k, i + 1, prod \div Base))

\* a * k for 0 <= k < Base
NatMulSmall(a, k) ==
    Eval(<<a, k>>, LAMBDA v :
        IF v[2] = 0 THEN <<>> ELSE NatMulSmallFrom(v[1], v[2], 1, 0))

\* a * Base^j
NatShlLimbs(a, j) ==
    Eval(a, LAMBDA v : IF v = <<>> THEN <<>> ELSE [i \in 1..j |-> 0] \o v)

\* a * 2^s
NatShl(a, s) ==
    Eval(s, LAMBDA sh :
        NatShlLimbs(NatMulSmall(a, 2^(sh % LimbBits)), sh \div LimbBits))

RECURSIVE NatMulFrom(_, _, _)
NatMulFrom(a, b, i) ==
    IF i > Len(b) THEN <<>>
    ELSE NatAdd(NatMulSmall(a, b[i]), NatShlLimbs(NatMulFrom(a, b, i + 1), 1))

NatMul(a, b) == Eval(<<a, b>>, LAMBDA v : NatMulFrom(v[1], v[2], 1))

\* the number of bits of a
NatBitLen(a) ==
    Eval(a, LAMBDA v :
        IF v = <<>> THEN 0
        ELSE LimbBits * (Len(v) - 1)
               + (CHOOSE k \in 1..LimbBits :
                      2^(k - 1) <= v[Len(v)] /\ v[Len(v)] < 2^k))

RECURSIVE QuotientDigit(_, _, _, _)
\* the largest q with lo <= q < hi and b * q <= r, given b * lo <= r < b * hi
QuotientDigit(r, b, lo, hi) ==
    IF hi - lo <= 1 THEN lo
    ELSE Eval((lo + hi) \div 2, LAMBDA mid :
             IF NatLess(r, NatMulSmall(b, mid))
             THEN QuotientDigit(r, b, lo, mid)
             ELSE QuotientDigit(r, b, mid, hi))

RECURSIVE NatDivFrom(_, _, _, _, _)
\* long division, limb i of a downwards: [quot, rem]
NatDivFrom(a, b, i, quot, rem) ==
    IF i = 0 THEN [quot |-> NatNorm(quot), rem |-> rem]
    ELSE Eval(NatNorm(<<a[i]>> \o rem), LAMBDA r1 :
         Eval(QuotientDigit(r1, b, 0, Base), LAMBDA qd :
         Eval(<<i - 1, <<qd>> \o quot, NatSub(r1, NatMulSmall(b, qd))>>, LAMBDA nx :
              NatDivFrom(a, b, nx[1], nx[2], nx[3]))))

\* a div b and a mod b, for b > 0
NatDivMod(a, b) ==
    Eval(<<a, b>>, LAMBDA v : NatDivFrom(v[1], v[2], Len(v[1]), <<>>, <<>>))

\* floor(n / d * 2^s) and its remainder, with the divisor used
ScaledDiv(n, d, s) ==
    Eval(IF s >= 0 THEN <<NatShl(n, s), d>> ELSE <<n, NatShl(d, 0 - s)>>, LAMBDA v :
    Eval(NatDivMod(v[1], v[2]), LAMBDA qr :
         [quot |-> qr.quot, rem |-> qr.rem, div |-> v[2], shift |-> s]))

\* the quotient t.quot rounded to nearest, ties to even
RoundQuotient(t) ==
    Eval(NatShl(t.rem, 1), LAMBDA twice :
        IF \/ NatLess(t.div, twice)
           \/ twice = t.div /\ t.quot[1] % 2 = 1
        THEN NatAdd(t.quot, <<1>>)
        ELSE t.quot)

\* the double zero
DoubleZero == [m |-> <<>>, e |-> 0]

\* the double nearest to n / d (ties to even), for naturals n and d > 0
RoundToDouble(n, d) ==
    Eval(<<n, d>>, LAMBDA v :
        IF v[1] = <<>> THEN DoubleZero
        ELSE Eval(Precision - (NatBitLen(v[1]) - NatBitLen(v[2])), LAMBDA s0 :
             Eval(ScaledDiv(v[1], v[2], s0), LAMBDA t0 :
             Eval(IF NatBitLen(t0.quot) > Precision
                  THEN ScaledDiv(v[1], v[2], s0 - 1) ELSE t0, LAMBDA t :
             Eval(RoundQuotient(t), LAMBDA rq :
                  IF NatBitLen(rq) > Precision
                  THEN [m |-> NatShl(<<1>>, Precision - 1), e |-> 1 - t.shift]
                  ELSE [m |-> rq, e |-> 0 - t.shift])))))

\* float("num/den" written as a decimal), e.g. 1.12 is DoubleOf(112, 100)
DoubleOf(num, den) == RoundToDouble(NatOf(num), NatOf(den))

\* x / y
DoubleDiv(x, y) ==
    Eval(<<x, y>>, LAMBDA v :
    Eval(RoundToDouble(v[1].m, v[2].m), LAMBDA rd :
         IF rd.m = <<>> THEN DoubleZero
         ELSE [m |-> rd.m, e |-> rd.e + v[1].e - v[2].e]))

\* x * y
DoubleMul(x, y) ==
    Eval(<<x, y>>, LAMBDA v :
    Eval(RoundToDouble(NatMul(v[1].m, v[2].m), <<1>>), LAMBDA rd :
         IF rd.m = <<>> THEN DoubleZero
         ELSE [m |-> rd.m, e |-> rd.e + v[1].e + v[2].e]))

\* x + y
DoubleAdd(x, y) ==
    Eval(<<x, y>>, LAMBDA v :
        IF v[1].m = <<>> THEN v[2]
        ELSE IF v[2].m = <<>> THEN v[1]
        ELSE Eval(IF v[1].e <= v[2].e THEN v[1].e ELSE v[2].e, LAMBDA low :
             Eval(RoundToDouble(NatAdd(NatShl(v[1].m, v[1].e - low),
                                       NatShl(v[2].m, v[2].e - low)), <<1>>), LAMBDA rd :
                  [m |-> rd.m, e |-> rd.e + low])))

\* int(x) for a double x >= 0
DoubleToInt(x) ==
    Eval(x, LAMBDA v :
        IF v.e >= 0 THEN NatToInt(NatShl(v.m, v.e))
        ELSE NatToInt(NatDivMod(v.m, NatShl(<<1>>, 0 - v.e)).quot))

-----------------------------------------------------------------------------
(* ChunkMapper                                                             *)

\* The segmenter gives paragraph i (0-based) the id i; token_count as given.
Paragraphs(tokens) ==
    [i \in 1..Len(tokens) |-> [paragraph_id |-> i - 1, token_count |-> tokens[i]]]

\* max_input_token = self.max_output_token / self.output_input_token_ratio,
\* then int(max_input_token * 0.8), in double arithmetic; int() truncates
\* toward zero, so a negative max_output_token gives minus the result of its
\* absolute value
MaxInputTokenWithBuffer(m) ==
    LET abs == IF m.max_output_token < 0 THEN 0 - m.max_output_token
               ELSE m.max_output_token
        max_input_token == DoubleDiv(DoubleOf(abs, 1), DoubleOf(m.ratio[1], m.ratio[2]))
        magnitude == DoubleToInt(DoubleMul(max_input_token, DoubleOf(8, 10)))
    IN IF m.max_output_token < 0 THEN 0 - magnitude ELSE magnitude

\* calculate_max_input_token of every configuration, computed once
MaxInputTokenTable == [m \in MapperConfigs |-> MaxInputTokenWithBuffer(m)]

\* calculate_max_input_token()
CalculateMaxInputToken(m) == MaxInputTokenTable[m]

\* the locals of map_chunk_paragraphs before the loop
PackInit ==
    [pc |-> "loop", pos |-> 1, chunks |-> <<>>, current_chunk_id |-> 1,
     current_chunk_paragraphs |-> <<>>, current_chunk_token_count |-> 0]

\* variant of PackFits: no paragraph ever joins the open chunk
PackFits_Never(st, token_count, max_input_token) == FALSE

\* variant of PackFits: the comparison written <=
PackFits_NonStrict(st, token_count, max_input_token) ==
    st.current_chunk_token_count + token_count <= max_input_token

\* variant of PackFits: the prompt overhead (20 tokens) enters the packing sum
PackFits_CountsPrompt(st, token_count, max_input_token) ==
    st.current_chunk_token_count + token_count + 20 < max_input_token

\* the fit test of the loop, strict
PackFits(st, token_count, max_input_token) ==
    st.current_chunk_token_count + token_count < max_input_token

\* variant of PackSaveOpen: the open chunk is saved even when it is empty
PackSaveOpen_EvenEmpty(st) ==
    [st EXCEPT !.chunks = DictSet(st.chunks, st.current_chunk_id,
                                  st.current_chunk_paragraphs),
               !.current_chunk_id = st.current_chunk_id + 1]

\* the else branch: save the open chunk if it has paragraphs
PackSaveOpen(st) ==
    IF st.current_chunk_paragraphs # <<>>
    THEN [st EXCEPT !.chunks = DictSet(st.chunks, st.current_chunk_id,
                                       st.current_chunk_paragraphs),
                    !.current_chunk_id = st.current_chunk_id + 1]
    ELSE st

\* variant of PackStep: the new chunk's count restarts at 0 instead of at
\* the token count of the paragraph that opens it
PackStep_CountFromZero(st, paragraph, max_input_token) ==
    IF PackFits(st, paragraph.token_count, max_input_token)
    THEN [st EXCEPT !.current_chunk_paragraphs =
                        Append(st.current_chunk_paragraphs, paragraph.paragraph_id),
                    !.current_chunk_token_count =
                        st.current_chunk_token_count + paragraph.token_count,
                    !.pos = st.pos + 1]
    ELSE [PackSaveOpen(st) EXCEPT
                    !.current_chunk_paragraphs = <<paragraph.paragraph_id>>,
                    !.current_chunk_token_count = 0,
                    !.pos = st.pos + 1]

\* one iteration of the for loop on `paragraph`
PackStep(st, paragraph, max_input_token) ==
    IF PackFits(st, paragraph.token_count, max_input_token)
    THEN [st EXCEPT !.current_chunk_paragraphs =
                        Append(st.current_chunk_paragraphs, paragraph.paragraph_id),
                    !.current_chunk_token_count =
                        st.current_chunk_token_count + paragraph.token_count,
                    !.pos = st.pos + 1]
    ELSE [PackSaveOpen(st) EXCEPT
                    !.current_chunk_paragraphs = <<paragraph.paragraph_id>>,
                    !.current_chunk_token_count = paragraph.token_count,
                    !.pos = st.pos + 1]

\* variant of PackFinish: the last open chunk is forgotten
PackFinish_NoLastChunk(st) == [st EXCEPT !.pc = "returned"]

\* after the loop: add the last chunk, return chunks
PackFinish(st) ==
    [st EXCEPT !.chunks = IF st.current_chunk_paragraphs # <<>>
                          THEN DictSet(st.chunks, st.current_chunk_id,
                                       st.current_chunk_paragraphs)
                          ELSE st.chunks,
               !.pc = "returned"]

RECURSIVE PackLoop(_, _, _)
PackLoop(st, paragraphs, max_input_token) ==
    IF st.pos > Len(paragraphs) THEN st
    ELSE PackLoop(PackStep(st, paragraphs[st.pos], max_input_token),
                  paragraphs, max_input_token)

\* the whole call: the returned dict
MapChunkParagraphs(m, paragraphs) ==
    PackFinish(PackLoop(PackInit, paragraphs, CalculateMaxInputToken(m))).chunks

-----------------------------------------------------------------------------
(* Translator                                                              *)

GeminiModel == "gemini-2.5-flash"
DeepseekModel == "deepseek-chat"

\* Translator.ENV_VAR_MAP, for the two providers modelled
EnvVarMap(provider) ==
    IF provider = "gemini" THEN "GEMINI_API_KEY" ELSE "DEEPSEEK_API_KEY"

\* model_api_mapping.json: the provider of a model name
ProviderOf(model_name) == IF model_name = GeminiModel THEN "gemini" ELSE "deepseek"

\* The environments: which API keys are set, which models the mapping file has.
\* The value of an environment variable is modelled by the variable's name.
Environments ==
    [keys : SUBSET {"GEMINI_API_KEY", "DEEPSEEK_API_KEY"},
     model_mapping : {{GeminiModel}, {DeepseekModel}, {GeminiModel, DeepseekModel}}]

\* usage figures an API reports (p prompt, c completion, t thinking tokens);
\* a response without a translation still reports the prompt it read
UsageOfFailure == [p |-> 1, c |-> 0, t |-> 0]

\* A string is modelled as the tuple of its parts, an f-string as their
\* concatenation. What one HTTP request can come back with:
\*   exc    requests.post or raise_for_status raises (timeout, HTTP error)
\*   empty  a response with no candidates / no choices, usage reported
\*   text   a response with a translation, usage reported
\*   block  (Gemini) promptFeedback.blockReason is present
TextReplies ==
    {[kind |-> "text", text |-> <<"A">>, usage |-> [p |-> 1, c |-> 2, t |-> 0]],
     [kind |-> "text", text |-> <<"B">>, usage |-> [p |-> 2, c |-> 1, t |-> 1]]}
ExcReply == [kind |-> "exc", text |-> <<>>, usage |-> [p |-> 0, c |-> 0, t |-> 0]]
EmptyReply == [kind |-> "empty", text |-> <<>>, usage |-> UsageOfFailure]
BlockReply == [kind |-> "block", text |-> <<>>, usage |-> UsageOfFailure]
PlainReplies == TextReplies \cup {ExcReply, EmptyReply}

\* The replies to the requests of one translate_text call, in order: one
\* request, or a blocked Gemini request followed by the DeepSeek request.
Scenarios == {<<r>> : r \in PlainReplies} \cup {<<BlockReply, d>> : d \in PlainReplies}

\* _get_api_key: the provided key, else the provider's environment variable
GetApiKey(provider, provided_key, env) ==
    IF provided_key # "none" THEN [exc |-> "none", key |-> provided_key]
    ELSE IF EnvVarMap(provider) \in env.keys
         THEN [exc |-> "none", key |-> EnvVarMap(provider)]
         ELSE [exc |-> "ValueError", key |-> "none"]

\* _setup_provider: gemini sets base_url only; deepseek sets base_url and headers
SetupProvider(tr) ==
    IF tr.provider = "gemini"
    THEN [tr EXCEPT !.base_url = "generativelanguage.googleapis.com"]
    ELSE [tr EXCEPT !.base_url = "api.deepseek.com",
                    !.headers = <<"Bearer", tr.api_key>>]

\* Translator.__init__ for a model of the mapping whose key is found
NewTranslator(model_name, provided_key, env) ==
    SetupProvider([model_name |-> model_name,
                   provider |-> ProviderOf(model_name),
                   api_key |-> GetApiKey(ProviderOf(model_name), provided_key, env).key,
                   base_url |-> "unset",
                   headers |-> <<"unset">>])

\* the constructions that do not raise
CanConstruct(model_name, provided_key, env) ==
    /\ model_name \in env.model_mapping
    /\ GetApiKey(ProviderOf(model_name), provided_key, env).exc = "none"

\* _switch_model: validates, then mutates model_name and provider, then
\* fetches the key (which may raise with the two fields already changed),
\* then sets the provider up. ret is <<original_model, original_provider>>.
SwitchModel(tr, new_model_name, env) ==
    IF new_model_name \notin env.model_mapping
    THEN [exc |-> "ValueError", tr |-> tr, ret |-> <<>>]
    ELSE LET t1 == [tr EXCEPT !.model_name = new_model_name,
                              !.provider = ProviderOf(new_model_name)]
             k == GetApiKey(t1.provider, "none", env)
         IN IF k.exc # "none"
            THEN [exc |-> k.exc, tr |-> t1, ret |-> <<>>]
            ELSE [exc |-> "none",
                  tr |-> SetupProvider([t1 EXCEPT !.api_key = k.key]),
                  ret |-> <<tr.model_name, tr.provider>>]

\* _calculate_response_tokens: the keys depend on self.provider
CalculateResponseTokens(provider, u) ==
    IF provider = "gemini"
    THEN << <<"prompt_tokens", u.p>>, <<"completion_tokens", u.c>>,
            <<"thoughts_tokens", u.t>>, <<"total_tokens", u.p + u.c + u.t>> >>
    ELSE << <<"prompt_tokens", u.p>>, <<"completion_tokens", u.c>>,
            <<"reasoning_tokens", u.t>>, <<"total_tokens", u.p + u.c + u.t>> >>

NoResult == [success |-> FALSE, translated_text |-> <<>>, error |-> <<"none">>,
             actual_tokens |-> <<>>, fallback_used |-> FALSE]

Failure(error, actual_tokens) ==
    [NoResult EXCEPT !.error = error, !.actual_tokens = actual_tokens]

Success(text, actual_tokens) ==
    [NoResult EXCEPT !.success = TRUE, !.translated_text = text,
                     !.actual_tokens = actual_tokens]

\* _translate_deepseek with the reply `r` to its request. Reading
\* self.headers raises AttributeError on a Translator that never set them.
TranslateDeepseek(tr, r) ==
    IF tr.headers = <<"unset">> THEN [exc |-> "AttributeError", result |-> NoResult]
    ELSE IF r.kind = "exc" THEN [exc |-> "RequestException", result |-> NoResult]
    ELSE LET actual_tokens == CalculateResponseTokens(tr.provider, r.usage)
         IN IF r.kind = "text"
            THEN [exc |-> "none", result |-> Success(r.text, actual_tokens)]
            ELSE [exc |-> "none",
                  result |-> Failure(<<"No translation found in API response">>,
                                     actual_tokens)]

\* the except branch of the fallback: try to switch back, swallow a failure.
\* `original` is <<>> when original_model was never bound (NameError, swallowed).
FallbackExcept(tr, original, e, actual_tokens, env) ==
    [exc |-> "none",
     tr |-> IF original = <<>> THEN tr ELSE SwitchModel(tr, original[1], env).tr,
     result |-> Failure(<<"Gemini blocked content and DeepSeek fallback failed with exception", e>>,
                        actual_tokens)]

\* variant of GeminiFallback: a block is a failure, no other provider is tried
GeminiFallback_NoFallback(tr, sc, actual_tokens, env) ==
    [exc |-> "none", tr |-> tr,
     result |-> Failure(<<"Content blocked">>, actual_tokens)]

\* the fallback of _translate_gemini after a content block
GeminiFallback(tr, sc, actual_tokens, env) ==
    LET s1 == SwitchModel(tr, DeepseekModel, env)
    IN IF s1.exc # "none"
       THEN FallbackExcept(s1.tr, <<>>, s1.exc, actual_tokens, env)
       ELSE LET fb == TranslateDeepseek(s1.tr, sc[2])
            IN IF fb.exc # "none"
               THEN FallbackExcept(s1.tr, s1.ret, fb.exc, actual_tokens, env)
               ELSE LET s2 == SwitchModel(s1.tr, s1.ret[1], env)
                    IN IF s2.exc # "none"
                       THEN FallbackExcept(s2.tr, s1.ret, s2.exc, actual_tokens, env)
                       ELSE IF fb.result.success
                       THEN [exc |-> "none", tr |-> s2.tr,
                             result |-> [fb.result EXCEPT !.fallback_used = TRUE]]
                       ELSE [exc |-> "none", tr |-> s2.tr,
                             result |-> Failure(
                                 <<"Gemini blocked content and DeepSeek fallback failed">>
                                   \o fb.result.error, actual_tokens)]

\* _translate_gemini with the replies `sc` to its requests
TranslateGemini(tr, sc, env) ==
    IF sc[1].kind = "exc"
    THEN [exc |-> "RequestException", tr |-> tr, result |-> NoResult]
    ELSE LET actual_tokens == CalculateResponseTokens(tr.provider, sc[1].usage)
         IN IF sc[1].kind = "block"
            THEN GeminiFallback(tr, sc, actual_tokens, env)
            ELSE IF sc[1].kind = "text"
            THEN [exc |-> "none", tr |-> tr,
                  result |-> Success(sc[1].text, actual_tokens)]
            ELSE [exc |-> "none", tr |-> tr,
                  result |-> Failure(<<"No translation found in API response">>,
                                     actual_tokens)]

\* the except clauses of translate_text: every exception becomes a result
CaughtResult(exc) ==
    IF exc = "RequestException"
    THEN Failure(<<"API request failed">>, <<>>)
    ELSE Failure(<<"Unexpected error", exc>>, <<>>)

\* variant of TranslateText: the except clauses are missing
TranslateText_NoExcept(tr, sc, env) ==
    LET out == IF tr.provider = "gemini"
               THEN TranslateGemini(tr, sc, env)
               ELSE LET d == TranslateDeepseek(tr, sc[1])
                    IN [exc |-> d.exc, tr |-> tr, result |-> d.result]
    IN [raised |-> out.exc # "none", tr |-> out.tr, result |-> out.result]

\* translate_text: the result returned and the Translator afterwards;
\* raised tells whether an exception left translate_text.
TranslateText(tr, sc, env) ==
    LET out == IF tr.provider = "gemini"
               THEN TranslateGemini(tr, sc, env)
               ELSE LET d == TranslateDeepseek(tr, sc[1])
                    IN [exc |-> d.exc, tr |-> tr, result |-> d.result]
    IN [raised |-> FALSE,
        tr |-> out.tr,
        result |-> IF out.exc = "none" THEN out.result ELSE CaughtResult(out.exc)]

-----------------------------------------------------------------------------
(* BookTranslator                                                          *)

\* join(sep, list) of Python on strings modelled as tuples of parts
RECURSIVE Join(_, _)
Join(sep, list) ==
    IF list = <<>> THEN <<>>
    ELSE IF Len(list) = 1 THEN list[1]
    ELSE list[1] \o <<sep>> \o Join(sep, Tail(list))

\* merge_paragraphs_into_chunks: chunk name -> chunk text. The text of a
\* paragraph is modelled by its id, the chunk text by the ids it joins.
MergeParagraphsIntoChunks(chunk_mapping) ==
    [i \in 1..Len(chunk_mapping) |-> <<chunk_mapping[i][1], chunk_mapping[i][2]>>]

\* the three += of the running totals on a successful result
AddUsage(b, actual_tokens) ==
    [b EXCEPT !.tot_input_tokens = @ + DictGetOr(actual_tokens, "prompt_tokens", 0),
              !.tot_output_tokens = @ + DictGetOr(actual_tokens, "completion_tokens", 0),
              !.tot_thinking_tokens = @ + DictGetOr(actual_tokens, "thoughts_tokens", 0)]

\* f"[TRANSLATION FAILED: {error_msg}]"
FailedMarker(error_msg) == <<"[TRANSLATION FAILED: ">> \o error_msg \o <<"]">>

\* variant of RecordFirstPass: the usage of a failed call is added too
RecordFirstPass_CountsFailures(s, chunk_name, chunk_text, result) ==
    IF result.success
    THEN << [s[1] EXCEPT !.chunk_translations =
                             DictSet(@, chunk_name, result.translated_text)],
            AddUsage(s[2], result.actual_tokens) >>
    ELSE << [s[1] EXCEPT !.failed_chunks = Append(@, <<chunk_name, chunk_text>>),
                         !.chunk_translations =
                             DictSet(@, chunk_name, FailedMarker(result.error))],
            AddUsage(s[2], result.actual_tokens) >>

\* variant of RecordFirstPass: every chunk is queued for the retry pass
RecordFirstPass_QueuesAll(s, chunk_name, chunk_text, result) ==
    IF result.success
    THEN << [s[1] EXCEPT !.failed_chunks = Append(@, <<chunk_name, chunk_text>>),
                         !.chunk_translations =
                             DictSet(@, chunk_name, result.translated_text)],
            AddUsage(s[2], result.actual_tokens) >>
    ELSE << [s[1] EXCEPT !.failed_chunks = Append(@, <<chunk_name, chunk_text>>),
                         !.chunk_translations =
                             DictSet(@, chunk_name, FailedMarker(result.error))],
            s[2] >>

\* first pass, the handling of one result (if result['success'] ... else ...)
\* s is <<run locals, running totals>>
RecordFirstPass(s, chunk_name, chunk_text, result) ==
    IF result.success
    THEN << [s[1] EXCEPT !.chunk_translations =
                             DictSet(@, chunk_name, result.translated_text)],
            AddUsage(s[2], result.actual_tokens) >>
    ELSE << [s[1] EXCEPT !.failed_chunks = Append(@, <<chunk_name, chunk_text>>),
                         !.chunk_translations =
                             DictSet(@, chunk_name, FailedMarker(result.error))],
            s[2] >>

\* variant of RecordRetry: a recovered chunk keeps its failure marker
RecordRetry_KeepsMarker(s, chunk_name, result) ==
    IF result.success
    THEN << s[1], AddUsage(s[2], result.actual_tokens) >>
    ELSE s

\* retry pass, the handling of one result: a failure keeps the marker
RecordRetry(s, chunk_name, result) ==
    IF result.success
    THEN << [s[1] EXCEPT !.chunk_translations =
                             DictSet(@, chunk_name, result.translated_text)],
            AddUsage(s[2], result.actual_tokens) >>
    ELSE s

\* variant of AllTranslatedChunks: the chunks of the retry batch come last
AllTranslatedChunks_RetriedLast(r) ==
    LET retried == {r.failed_chunks[j][1] : j \in 1..Len(r.failed_chunks)}
        names == DictKeys(r.chunks)
        order == SelectSeq(names, LAMBDA n : n \notin retried)
                     \o SelectSeq(names, LAMBDA n : n \in retried)
    IN [i \in 1..Len(order) |-> DictGet(r.chunk_translations, order[i])]

\* [chunk_translations[name] for name in chunks.keys()]
AllTranslatedChunks(r) ==
    [i \in 1..Len(r.chunks) |-> DictGet(r.chunk_translations, r.chunks[i][1])]

\* the monitoring entries, one per chunk of chunks.keys()
MonitoringData(r) ==
    [i \in 1..Len(r.chunks) |->
        [chunk_id |-> r.chunks[i][1],
         translated_chunk |-> DictGet(r.chunk_translations, r.chunks[i][1]),
         paragraphs_ids |-> DictGet(r.chunk_mapping, r.chunks[i][1])]]

\* variant of SleepIf: no sleep at all
SleepIf_Never(cond, secs) == <<>>

\* time.sleep(secs) when cond, as an event
SleepIf(cond, secs) == IF cond THEN << <<"sleep", secs, <<>> >> >> ELSE <<>>

\* history of a call: the chunk and the result returned
CallEvent(chunk_name, result) == <<"call", chunk_name, result>>

\* what the retry pass reads of a result: a failed retry is only printed
RetryOutcome(result) == IF result.success THEN result ELSE NoResult

NewBook == [tot_input_tokens |-> 0, tot_output_tokens |-> 0, tot_thinking_tokens |-> 0]

RunStart ==
    [pc |-> "start", max_input_tokens |-> 0, chunk_mapping |-> <<>>,
     chunks |-> <<>>, chunk_translations |-> <<>>, failed_chunks |-> <<>>, i |-> 1]

NoFiles == [written |-> {}, translated_text |-> <<>>, monitoring |-> <<>>]

-----------------------------------------------------------------------------
(* Values of the variables a specification does not use.                   *)

IdleMapper == [max_output_token |-> 0, ratio |-> <<1, 1>>]
IdleEnviron == [keys |-> {}, model_mapping |-> {}]
IdleTranslator == [model_name |-> "none", provider |-> "none", api_key |-> "none",
                   base_url |-> "unset", headers |-> <<"unset">>]
IdleCall == [n |-> 0, before |-> IdleTranslator, scenario |-> <<>>, result |-> NoResult]
IdlePacking == [PackInit EXCEPT !.pc = "idle"]
IdleRun == [RunStart EXCEPT !.pc = "idle"]
IdleCalculator == [prices |-> <<>>, returned |-> <<>>]
IdleCounting == [pc |-> "idle", source |-> "none", segmented_tokens_data |-> <<>>,
                 prompt_tokens_data |-> <<>>, chunk_mapping |-> <<>>,
                 result |-> <<>>]
IdleMerging == [pc |-> "idle"]

-----------------------------------------------------------------------------
(* SpecMap: ChunkMapper.map_chunk_paragraphs, one loop iteration per step  *)

\* the calls of map_chunk_paragraphs: <<configuration, token counts>>
MapInputs ==
    ([max_output_token : MaxOutputTokens, ratio : Ratios]
         \X SeqsUpTo(TokenCounts, MaxPar))
        \cup {<<ScenarioMapper, ScenarioTokens>>,
              <<DecimalRatioMapper, DecimalRatioTokens>>}

InitMap ==
    /\ \E in \in MapInputs :
          /\ mapper = in[1]
          /\ paragraphs_data = Paragraphs(in[2])
    /\ packing = PackInit
    /\ environ = IdleEnviron
    /\ translator = IdleTranslator
    /\ trcall = IdleCall
    /\ book = NewBook
    /\ run = IdleRun
    /\ files = NoFiles
    /\ events = <<>>
    /\ calculator = IdleCalculator
    /\ counting = IdleCounting
    /\ merging = IdleMerging

MapInLoop == packing.pc = "loop" /\ packing.pos <= Len(paragraphs_data)

\* an iteration that takes the if branch
MapAppend ==
    /\ MapInLoop
    /\ PackFits(packing, paragraphs_data[packing.pos].token_count,
                CalculateMaxInputToken(mapper))
    /\ packing' = PackStep(packing, paragraphs_data[packing.pos],
                           CalculateMaxInputToken(mapper))
    /\ UNCHANGED <<merging, calculator, counting, mapper, paragraphs_data, environ, translator, trcall, book,
                   run, files, events>>

\* an iteration that takes the else branch
MapStartChunk ==
    /\ MapInLoop
    /\ ~PackFits(packing, paragraphs_data[packing.pos].token_count,
                 CalculateMaxInputToken(mapper))
    /\ packing' = PackStep(packing, paragraphs_data[packing.pos],
                           CalculateMaxInputToken(mapper))
    /\ UNCHANGED <<merging, calculator, counting, mapper, paragraphs_data, environ, translator, trcall, book,
                   run, files, events>>

\* the loop is over: the last chunk is added and chunks returned
MapReturn ==
    /\ packing.pc = "loop" /\ packing.pos > Len(paragraphs_data)
    /\ packing' = PackFinish(packing)
    /\ UNCHANGED <<merging, calculator, counting, mapper, paragraphs_data, environ, translator, trcall, book,
                   run, files, events>>

NextMap == MapAppend \/ MapStartChunk \/ MapReturn

SpecMap == InitMap /\ [][NextMap]_vars

-----------------------------------------------------------------------------
(* SpecTr: a Translator and the translate_text calls made on it            *)

InitTr ==
    /\ environ \in Environments
    /\ \E model_name \in {GeminiModel, DeepseekModel},
          provided_key \in {"none", "EXPLICIT_KEY"} :
          /\ CanConstruct(model_name, provided_key, environ)
          /\ translator = NewTranslator(model_name, provided_key, environ)
    /\ trcall = [IdleCall EXCEPT !.before = translator]
    /\ mapper = IdleMapper
    /\ paragraphs_data = <<>>
    /\ packing = IdlePacking
    /\ book = NewBook
    /\ run = IdleRun
    /\ files = NoFiles
    /\ events = <<>>
    /\ calculator = IdleCalculator
    /\ counting = IdleCounting
    /\ merging = IdleMerging

\* one translate_text call, the replies to its requests chosen by the world
TrCall ==
    /\ trcall.n < MaxCalls
    /\ \E sc \in Scenarios :
          LET out == TranslateText(translator, sc, environ)
          IN /\ translator' = out.tr
             /\ trcall' = [n |-> trcall.n + 1, before |-> translator,
                           scenario |-> sc, result |-> out.result]
    /\ UNCHANGED <<merging, calculator, counting, mapper, paragraphs_data, packing, environ, book, run, files,
                   events>>

NextTr == TrCall

SpecTr == InitTr /\ [][NextTr]_vars

-----------------------------------------------------------------------------
(* Spec: BookTranslator.run                                                *)

Init ==
    /\ mapper \in RunMappers
    /\ paragraphs_data \in {Paragraphs(t) : t \in SeqsUpTo(RunTokenCounts, RunMaxPar)}
    /\ environ \in Environments
    \* main() builds Translator(model_name): the key comes from the environment
    /\ \E model_name \in {GeminiModel, DeepseekModel} :
          /\ CanConstruct(model_name, "none", environ)
          /\ translator = NewTranslator(model_name, "none", environ)
    /\ book = NewBook
    /\ run = RunStart
    /\ files = NoFiles
    /\ events = <<>>
    /\ calculator = IdleCalculator
    /\ counting = IdleCounting
    /\ packing = IdlePacking
    /\ trcall = IdleCall
    /\ merging = IdleMerging

\* steps 1 to 4 of run: the ceiling is computed and printed, the mapping is
\* built and the paragraphs are merged into chunk texts
RunPrepare ==
    /\ run.pc = "start"
    /\ LET chunk_mapping == MapChunkParagraphs(mapper, paragraphs_data)
       IN run' = [run EXCEPT !.pc = "first_pass",
                             !.max_input_tokens = CalculateMaxInputToken(mapper),
                             !.chunk_mapping = chunk_mapping,
                             !.chunks = MergeParagraphsIntoChunks(chunk_mapping),
                             !.chunk_translations = <<>>,
                             !.failed_chunks = <<>>,
                             !.i = 1]
    /\ UNCHANGED <<merging, calculator, counting, mapper, paragraphs_data, packing, environ, translator, trcall,
                   book, files, events>>

\* one iteration of the first pass: the call, its bookkeeping, the sleep
FirstPassCall ==
    /\ run.pc = "first_pass" /\ run.i <= Len(run.chunks)
    /\ \E sc \in Scenarios :
          LET chunk_name == run.chunks[run.i][1]
              chunk_text == run.chunks[run.i][2]
              out == TranslateText(translator, sc, environ)
              s == RecordFirstPass(<<run, book>>, chunk_name, chunk_text, out.result)
          IN /\ translator' = out.tr
             /\ IF out.raised
                THEN /\ run' = [run EXCEPT !.pc = "raised"]
                     /\ book' = book
                     /\ events' = Append(events, CallEvent(chunk_name, NoResult))
                ELSE /\ run' = [s[1] EXCEPT !.i = run.i + 1]
                     /\ book' = s[2]
                     /\ events' = Append(events, CallEvent(chunk_name, out.result))
                                     \o SleepIf(run.i < Len(run.chunks), 10)
    /\ UNCHANGED <<merging, calculator, counting, mapper, paragraphs_data, packing, environ, trcall, files>>

\* the first pass is over and some chunk failed: the long sleep, then retries
BeginRetry ==
    /\ run.pc = "first_pass" /\ run.i > Len(run.chunks)
    /\ run.failed_chunks # <<>>
    /\ run' = [run EXCEPT !.pc = "retry", !.i = 1]
    /\ events' = events \o SleepIf(TRUE, 60)
    /\ UNCHANGED <<merging, calculator, counting, mapper, paragraphs_data, packing, environ, translator, trcall,
                   book, files>>

\* the first pass is over and no chunk failed
SkipRetry ==
    /\ run.pc = "first_pass" /\ run.i > Len(run.chunks)
    /\ run.failed_chunks = <<>>
    /\ run' = [run EXCEPT !.pc = "save"]
    /\ UNCHANGED <<merging, calculator, counting, mapper, paragraphs_data, packing, environ, translator, trcall,
                   book, files, events>>

\* one iteration of the retry pass
RetryCall ==
    /\ run.pc = "retry" /\ run.i <= Len(run.failed_chunks)
    /\ \E sc \in Scenarios :
          LET chunk_name == run.failed_chunks[run.i][1]
              out == TranslateText(translator, sc, environ)
              s == RecordRetry(<<run, book>>, chunk_name, out.result)
          IN /\ translator' = out.tr
             /\ IF out.raised
                THEN /\ run' = [run EXCEPT !.pc = "raised"]
                     /\ book' = book
                     /\ events' = Append(events, CallEvent(chunk_name, NoResult))
                ELSE /\ run' = [s[1] EXCEPT !.i = run.i + 1]
                     /\ book' = s[2]
                     /\ events' = Append(events, CallEvent(chunk_name,
                                                           RetryOutcome(out.result)))
                                     \o SleepIf(run.i < Len(run.failed_chunks), 10)
    /\ UNCHANGED <<merging, calculator, counting, mapper, paragraphs_data, packing, environ, trcall, files>>

\* the retry pass is over
EndRetry ==
    /\ run.pc = "retry" /\ run.i > Len(run.failed_chunks)
    /\ run' = [run EXCEPT !.pc = "save"]
    /\ UNCHANGED <<merging, calculator, counting, mapper, paragraphs_data, packing, environ, translator, trcall,
                   book, files, events>>

\* the final list in chunk order, then steps 6 and 7: the translated text
\* and the monitoring file are written
SaveOutputs ==
    /\ run.pc = "save"
    /\ files' = [written |-> {"translated_text", "monitoring"},
                 translated_text |-> Join("\n\n", AllTranslatedChunks(run)),
                 monitoring |-> MonitoringData(run)]
    /\ run' = [run EXCEPT !.pc = "done"]
    /\ UNCHANGED <<merging, calculator, counting, mapper, paragraphs_data, packing, environ, translator, trcall,
                   book, events>>

Next ==
    \/ RunPrepare
    \/ FirstPassCall
    \/ BeginRetry
    \/ SkipRetry
    \/ RetryCall
    \/ EndRetry
    \/ SaveOutputs

Spec == Init /\ [][Next]_vars

-----------------------------------------------------------------------------
(* Properties of the chunk mapping (SpecMap)                               *)

ParagraphIds == [i \in 1..Len(paragraphs_data) |-> paragraphs_data[i].paragraph_id]

\* the values of a dict, in insertion order
DictValues(d) == [i \in 1..Len(d) |-> d[i][2]]

\* the token count of the paragraph with this id
TokenCountOf(id) ==
    paragraphs_data[CHOOSE i \in 1..Len(paragraphs_data) :
                        paragraphs_data[i].paragraph_id = id].token_count

ChunkTokenSum(ids) == SumSeq([i \in 1..Len(ids) |-> TokenCountOf(ids[i])])

IsContiguousRun(ids) ==
    \E a \in 1..(Len(ParagraphIds) + 1), b \in 0..Len(ParagraphIds) :
        ids = SubSeq(ParagraphIds, a, b)

\* C1: the chunk lists of the returned mapping, concatenated in chunk order,
\* are the input paragraph-id sequence (nothing omitted, duplicated or
\* reordered), every chunk is a contiguous run of the input; during the loop
\* the saved chunks followed by the open chunk are the ids consumed so far.
C1_CoverageAndOrder ==
    /\ packing.pc = "returned" =>
          /\ Concat(DictValues(packing.chunks)) = ParagraphIds
          /\ \A i \in 1..Len(packing.chunks) : IsContiguousRun(packing.chunks[i][2])
    /\ packing.pc = "loop" =>
          Concat(DictValues(packing.chunks)) \o packing.current_chunk_paragraphs
              = SubSeq(ParagraphIds, 1, packing.pos - 1)

\* a returned mapping of at least two chunks, one of them of several paragraphs
C1_Witness ==
    /\ packing.pc = "returned"
    /\ Len(paragraphs_data) >= 3
    /\ Len(packing.chunks) >= 2
    /\ \E i \in 1..Len(packing.chunks) : Len(packing.chunks[i][2]) >= 2

\* C2: every chunk of more than one paragraph, saved or still open, sums to
\* strictly less than calculate_max_input_token(), at every step of the loop
\* and in the returned mapping.
C2_CeilingRespected ==
    packing.pc \in {"loop", "returned"} =>
        /\ \A i \in 1..Len(packing.chunks) :
              Len(packing.chunks[i][2]) > 1 =>
                  ChunkTokenSum(packing.chunks[i][2]) < CalculateMaxInputToken(mapper)
        /\ Len(packing.current_chunk_paragraphs) > 1 =>
              ChunkTokenSum(packing.current_chunk_paragraphs)
                  < CalculateMaxInputToken(mapper)

\* a returned mapping with a chunk of several paragraphs filled to one token
\* below the ceiling, followed by another chunk
C2_Witness ==
    /\ packing.pc = "returned"
    /\ Len(packing.chunks) >= 2
    /\ Len(packing.chunks[1][2]) > 1
    /\ ChunkTokenSum(packing.chunks[1][2]) = CalculateMaxInputToken(mapper) - 1

\* C10: in the returned mapping a paragraph whose token count is at least
\* calculate_max_input_token() is the only member of exactly one chunk and a
\* member of no other chunk.
C10_OversizedAlone ==
    packing.pc = "returned" =>
        \A p \in 1..Len(paragraphs_data) :
            paragraphs_data[p].token_count >= CalculateMaxInputToken(mapper) =>
                /\ \E k \in 1..Len(packing.chunks) :
                      packing.chunks[k][2] = <<paragraphs_data[p].paragraph_id>>
                /\ Cardinality({k \in 1..Len(packing.chunks) :
                      \E j \in 1..Len(packing.chunks[k][2]) :
                          packing.chunks[k][2][j] = paragraphs_data[p].paragraph_id}) = 1

\* an oversized paragraph in the middle, between two zero-token paragraphs,
\* under a positive ceiling
C10_Witness ==
    /\ packing.pc = "returned"
    /\ CalculateMaxInputToken(mapper) > 0
    /\ Len(paragraphs_data) >= 3
    /\ paragraphs_data[1].token_count = 0
    /\ paragraphs_data[2].token_count >= CalculateMaxInputToken(mapper)
    /\ paragraphs_data[3].token_count = 0
    /\ Len(packing.chunks) >= 3

\* the chunks built so far: the saved ones, then the open one
ChunksSoFar ==
    DictValues(packing.chunks)
        \o (IF packing.pc = "loop" /\ packing.current_chunk_paragraphs # <<>>
            THEN <<packing.current_chunk_paragraphs>> ELSE <<>>)

\* the ids a, a + 1, ..., b
IdRange(a, b) == [i \in 1..(b - a + 1) |-> a + i - 1]

\* C11: a paragraph joins the open chunk if and only if the running sum plus
\* its token count is strictly below the ceiling: every paragraph that is not
\* the first of its chunk kept the sum below the ceiling, and every paragraph
\* that opens a later chunk would have brought the previous chunk to the
\* ceiling or above. The 23 paragraphs of 50 tokens under max_output_token
\* 500 and ratio 1.0 (ceiling 400) give the chunks 0-6, 7-13, 14-20, 21-22.
C11_StrictFitTest ==
    /\ packing.pc \in {"loop", "returned"} =>
          /\ \A k \in 1..Len(ChunksSoFar) : \A j \in 2..Len(ChunksSoFar[k]) :
                 ChunkTokenSum(SubSeq(ChunksSoFar[k], 1, j))
                     < CalculateMaxInputToken(mapper)
          /\ \A k \in 2..Len(ChunksSoFar) :
                 ChunkTokenSum(ChunksSoFar[k - 1]) + TokenCountOf(ChunksSoFar[k][1])
                     >= CalculateMaxInputToken(mapper)
    /\ (/\ packing.pc = "returned"
        /\ mapper = ScenarioMapper
        /\ paragraphs_data = Paragraphs(ScenarioTokens)) =>
          /\ CalculateMaxInputToken(mapper) = 400
          /\ packing.chunks = << <<1, IdRange(0, 6)>>, <<2, IdRange(7, 13)>>,
                                 <<3, IdRange(14, 20)>>, <<4, IdRange(21, 22)>> >>

\* the mapping returned for the 23 paragraphs, whose eighth paragraph would
\* bring the first chunk exactly to the ceiling
C11_Witness ==
    /\ packing.pc = "returned"
    /\ mapper = ScenarioMapper
    /\ paragraphs_data = Paragraphs(ScenarioTokens)
    /\ Len(packing.chunks) = 4
    /\ ChunkTokenSum(packing.chunks[1][2]) + TokenCountOf(packing.chunks[2][2][1])
           = CalculateMaxInputToken(mapper)

\* C12: the keys of the mapping are chunk1, chunk2, ..., chunkN in insertion
\* order, every chunk has at least one paragraph, and the returned mapping is
\* empty exactly when there is no paragraph.
C12_ChunkNames ==
    /\ packing.pc \in {"loop", "returned"} =>
          /\ DictKeys(packing.chunks) = IdRange(1, Len(packing.chunks))
          /\ \A i \in 1..Len(packing.chunks) : packing.chunks[i][2] # <<>>
    /\ packing.pc = "loop" => packing.current_chunk_id = Len(packing.chunks) + 1
    /\ packing.pc = "returned" => (packing.chunks = <<>> <=> paragraphs_data = <<>>)

\* a returned mapping of several chunks whose very first paragraph failed the
\* fit test
C12_Witness ==
    /\ packing.pc = "returned"
    /\ Len(paragraphs_data) >= 2
    /\ ~PackFits(PackInit, paragraphs_data[1].token_count, CalculateMaxInputToken(mapper))
    /\ Len(packing.chunks) >= 2

\* floor(max_output_token / ratio * 0.8) in exact arithmetic, for a positive
\* max_output_token
ExactFloor(m) == (m.max_output_token * m.ratio[2] * 4) \div (m.ratio[1] * 5)

\* C13: for a positive max_output_token the ceiling the loop compared against
\* is floor(max_output_token / output_input_token_ratio * 0.8).
C13_CeilingIsFloor ==
    (packing.pc = "returned" /\ mapper.max_output_token > 0) =>
        CalculateMaxInputToken(mapper) = ExactFloor(mapper)

-----------------------------------------------------------------------------
(* Properties of BookTranslator.run (Spec)                                 *)

\* the translate_text calls made so far, in order
Calls == SelectSeq(events, LAMBDA e : e[1] = "call")

\* the calls made for one chunk, in order
CallsFor(chunk_name) == SelectSeq(Calls, LAMBDA e : e[2] = chunk_name)

ChunkNames == DictKeys(run.chunks)

\* SUCCESS: the last call made for the chunk returned success
FinalSuccess(chunk_name) ==
    /\ CallsFor(chunk_name) # <<>>
    /\ CallsFor(chunk_name)[Len(CallsFor(chunk_name))][3].success

LastResult(chunk_name) == CallsFor(chunk_name)[Len(CallsFor(chunk_name))][3]

\* the usage figure `key` of the successful call of every SUCCESS chunk, summed
SuccessUsage(key) ==
    SumSeq([i \in 1..Len(ChunkNames) |->
               IF FinalSuccess(ChunkNames[i])
               THEN DictGetOr(LastResult(ChunkNames[i]).actual_tokens, key, 0)
               ELSE 0])

\* C3: at the end of run on a fresh instance the input and output totals are
\* the prompt and completion tokens of the one successful call of every
\* SUCCESS chunk; failed calls add nothing.
C3_UsageCountedOnce ==
    run.pc = "done" =>
        /\ book.tot_input_tokens = SuccessUsage("prompt_tokens")
        /\ book.tot_output_tokens = SuccessUsage("completion_tokens")

\* a finished run in which one chunk failed and was recovered on retry and
\* another failed twice, its first failure a response that reported usage
C3_Witness ==
    /\ run.pc = "done"
    /\ \E c \in 1..Len(ChunkNames) :
          /\ Len(CallsFor(ChunkNames[c])) = 2
          /\ FinalSuccess(ChunkNames[c])
    /\ \E c \in 1..Len(ChunkNames) :
          /\ ~FinalSuccess(ChunkNames[c])
          /\ CallsFor(ChunkNames[c])[1][3].actual_tokens # <<>>
          /\ DictGet(CallsFor(ChunkNames[c])[1][3].actual_tokens, "prompt_tokens") > 0
    /\ book.tot_input_tokens > 0

\* C4: the first Len(chunks) calls are the chunks in chunk order; every later
\* call is the one retry of a chunk whose first call failed; when the passes
\* are over the calls number the chunks plus the first-pass failures.
C4_CallPattern ==
    run.pc \notin {"idle", "start"} =>
        LET n == Len(ChunkNames)
        IN /\ \A k \in 1..Len(Calls) : k <= n => Calls[k][2] = ChunkNames[k]
           /\ \A k \in 1..Len(Calls) : k > n =>
                 /\ \E j \in 1..n : /\ ChunkNames[j] = Calls[k][2]
                                    /\ ~Calls[j][3].success
                 /\ \A k2 \in (n + 1)..Len(Calls) :
                        k2 # k => Calls[k2][2] # Calls[k][2]
           /\ \A c \in 1..n : Len(CallsFor(ChunkNames[c])) <= 2
           /\ run.pc \in {"save", "done"} =>
                 /\ Len(Calls) = n + Cardinality({j \in 1..n : ~Calls[j][3].success})
                 /\ \A c \in 1..n :
                       Len(CallsFor(ChunkNames[c])) = IF Calls[c][3].success THEN 1 ELSE 2

\* a finished run of two or more chunks where the first chunk failed and was
\* retried and a later chunk succeeded at once
C4_Witness ==
    /\ run.pc = "done"
    /\ Len(ChunkNames) >= 2
    /\ ~Calls[1][3].success
    /\ Calls[2][3].success
    /\ Len(Calls) = Len(ChunkNames) + 1

\* what the output must hold for a chunk: the text of its successful call,
\* else the marker made of the error of its first call
ExpectedEntry(chunk_name) ==
    IF FinalSuccess(chunk_name)
    THEN LastResult(chunk_name).translated_text
    ELSE FailedMarker(CallsFor(chunk_name)[1][3].error)

\* C5: the translated text joins the chunk outputs in the order chunk1,
\* chunk2, ..., chunkN of the mapping, and the monitoring list has its entries
\* in that order, whichever chunks were retried.
C5_OriginalChunkOrder ==
    run.pc = "done" =>
        LET names == DictKeys(run.chunk_mapping)
        IN /\ names = [i \in 1..Len(names) |-> i]
           /\ [i \in 1..Len(files.monitoring) |-> files.monitoring[i].chunk_id] = names
           /\ files.translated_text =
                 Join("\n\n", [i \in 1..Len(names) |-> ExpectedEntry(names[i])])

\* a finished run where chunk1 was recovered on retry with a text other than
\* the one chunk2 got in the first pass
C5_Witness ==
    /\ run.pc = "done"
    /\ Len(ChunkNames) >= 2
    /\ Len(CallsFor(ChunkNames[1])) = 2
    /\ FinalSuccess(ChunkNames[1])
    /\ Len(CallsFor(ChunkNames[2])) = 1
    /\ LastResult(ChunkNames[1]).translated_text # LastResult(ChunkNames[2]).translated_text

\* C6: the monitoring list has exactly one entry per chunk of the mapping; the
\* entry of a chunk that failed twice is the failure marker, the entry of
\* every other chunk is the text its successful call returned and no marker.
C6_OneEntryPerChunk ==
    run.pc = "done" =>
        /\ Len(files.monitoring) = Len(run.chunk_mapping)
        /\ \A c \in 1..Len(run.chunk_mapping) :
              LET name == run.chunk_mapping[c][1]
                  mine == {i \in 1..Len(files.monitoring) :
                              files.monitoring[i].chunk_id = name}
              IN /\ Cardinality(mine) = 1
                 /\ \A i \in mine :
                       LET entry == files.monitoring[i].translated_chunk
                       IN IF FinalSuccess(name)
                          THEN /\ entry = LastResult(name).translated_text
                               /\ entry[1] # "[TRANSLATION FAILED: "
                          ELSE /\ Len(CallsFor(name)) = 2
                               /\ entry[1] = "[TRANSLATION FAILED: "
                               /\ entry[Len(entry)] = "]"

\* a finished run with a chunk recovered on retry and a chunk that failed twice
C6_Witness ==
    /\ run.pc = "done"
    /\ \E c \in 1..Len(ChunkNames) :
          Len(CallsFor(ChunkNames[c])) = 2 /\ FinalSuccess(ChunkNames[c])
    /\ \E c \in 1..Len(ChunkNames) :
          Len(CallsFor(ChunkNames[c])) = 2 /\ ~FinalSuccess(ChunkNames[c])

\* C8: no exception leaves run once the chunk loop has begun: a failing call
\* comes back as a result, every chunk is attempted, run can always take its
\* next step, and a finished run has written both files.
C8_RunNeverAborts ==
    run.pc # "idle" =>
        /\ run.pc # "raised"
        /\ run.pc \in {"save", "done"} =>
              \A c \in 1..Len(ChunkNames) : CallsFor(ChunkNames[c]) # <<>>
        /\ run.pc = "done" => files.written = {"translated_text", "monitoring"}
        /\ run.pc # "done" => ENABLED Next

\* a finished run in which a request raised, a later chunk was still attempted
\* and succeeded, and both files are written
C8_Witness ==
    /\ run.pc = "done"
    /\ Len(ChunkNames) >= 2
    /\ Calls[1][3].error = <<"API request failed">>
    /\ ~FinalSuccess(ChunkNames[1])
    /\ FinalSuccess(ChunkNames[2])
    /\ files.written = {"translated_text", "monitoring"}

\* C9: with a zero or negative ceiling run stops with a configuration error
\* before it maps any paragraph and before any translate_text call: no chunk
\* mapping is ever produced and no call is ever made.
C9_FatalConfigurationError ==
    (run.pc # "idle" /\ CalculateMaxInputToken(mapper) <= 0) =>
        /\ run.chunk_mapping = <<>>
        /\ Calls = <<>>

-----------------------------------------------------------------------------
(* Properties of the Translator (SpecTr)                                   *)

\* C7: when translate_text returns after a Gemini content block, model_name
\* and provider are what they were before the call, whatever the fallback did.
C7_FallbackScopedToCall ==
    (/\ trcall.n > 0
     /\ trcall.before.provider = "gemini"
     /\ trcall.scenario[1].kind = "block") =>
        /\ translator.model_name = trcall.before.model_name
        /\ translator.provider = trcall.before.provider

-----------------------------------------------------------------------------
(* Pacing of BookTranslator.run (Spec)                                     *)

\* the number of calls among the first k events
CallsUpTo(k) == Cardinality({j \in 1..k : events[j][1] = "call"})

\* C14: no two translate_text calls of a run are issued back to back: a call
\* that is not the last of the run is followed by a sleep, of 60 seconds after
\* the last call of the first pass and of 10 seconds after any other call, and
\* the 60-second sleep happens only when some chunk failed in the first pass.
C14_PacingSleeps ==
    /\ \A k \in 1..(Len(events) - 1) :
          events[k][1] = "call" => events[k + 1][1] = "sleep"
    /\ \A k \in 1..Len(events) :
          events[k][1] = "sleep" =>
              /\ k > 1 /\ events[k - 1][1] = "call"
              /\ events[k][2] = IF CallsUpTo(k) = Len(run.chunks) THEN 60 ELSE 10
              /\ events[k][2] = 60 => run.failed_chunks # <<>>
    /\ run.pc \in {"save", "done"} =>
          /\ events # <<>> => events[Len(events)][1] = "call"
          /\ run.failed_chunks # <<>> => \E k \in 1..Len(events) : events[k][2] = 60

\* two chunks, both fail and are retried: call, 10, call, 60, call, 10, call
C14_Witness ==
    /\ run.pc = "done"
    /\ Len(run.failed_chunks) = 2
    /\ [k \in 1..Len(events) |-> events[k][1]]
           = <<"call", "sleep", "call", "sleep", "call", "sleep", "call">>
    /\ <<events[2][2], events[4][2], events[6][2]>> = <<10, 60, 10>>

-----------------------------------------------------------------------------
(* Content blocks in BookTranslator.run (Spec)                             *)

\* the result of a blocked Gemini call whose fallback failed
BlockedFailure(result) ==
    /\ ~result.success
    /\ result.error # <<>>
    /\ result.error[1] \in {"Gemini blocked content and DeepSeek fallback failed",
                            "Gemini blocked content and DeepSeek fallback failed with exception"}

\* the names in the retry batch
FailedNames == {run.failed_chunks[j][1] : j \in 1..Len(run.failed_chunks)}

-----------------------------------------------------------------------------
(* Thinking tokens in BookTranslator.run (Spec)                            *)

\* the thinking tokens a usage record reports, under either provider's key
ThinkingReported(actual_tokens) ==
    DictGetOr(actual_tokens, "thoughts_tokens", 0)
        + DictGetOr(actual_tokens, "reasoning_tokens", 0)

\* C16: the thinking total is the sum of the thinking tokens reported by the
\* successful calls made so far, whichever provider reported them.
C16_ThinkingTotals ==
    run.pc \in {"first_pass", "retry", "save", "done"} =>
        book.tot_thinking_tokens
            = SumSeq([k \in 1..Len(Calls) |->
                         IF Calls[k][3].success
                         THEN ThinkingReported(Calls[k][3].actual_tokens)
                         ELSE 0])

-----------------------------------------------------------------------------
(* CostCalculator                                                          *)

\* prices are per this many tokens
Million == 1000000

\* A price is <<numerator, denominator>> of the decimal written, a price
\* table a dict from category to price.
ExamplePrices == << <<"input_token", <<5, 10>>>>, <<"output_token", <<12, 10>>>>,
                    <<"thinking_token", <<6, 10>>>> >>
NoThinkingPrices == << <<"input_token", <<1, 10>>>>, <<"output_token", <<3, 10>>>> >>
NoInputPrices == << <<"output_token", <<12, 10>>>>, <<"thinking_token", <<6, 10>>>> >>
NoOutputPrices == << <<"input_token", <<5, 10>>>>, <<"thinking_token", <<6, 10>>>> >>
PriceTables == {ExamplePrices, NoThinkingPrices, NoInputPrices, NoOutputPrices}

\* the default of self.prices.get('thinking_token', 0)
NoPrice == <<0, 1>>

\* the arguments of a calculate_cost call: <<input, output>> when the thinking
\* count is omitted, else <<input, output, thinking>>
CostArgs ==
    {<<3, 0>>, <<Million, Million>>, <<3, Million, Million>>,
     <<Million, Million, Million>>, <<Million, 0, 3>>}

\* tot_thinking_token: int = 0
ThinkingArg(args) == IF Len(args) = 2 THEN 0 ELSE args[3]

\* (tokens / 1_000_000) * price, in double arithmetic
TokenCost(tokens, price) ==
    DoubleMul(DoubleOf(tokens, Million), DoubleOf(price[1], price[2]))

\* input_cost + output_cost + thinking_cost, added left to right
TotalCost(costs) == DoubleAdd(DoubleAdd(costs[1], costs[2]), costs[3])

\* variant of CostBreakdownOf: the thinking cost is left out of the total
CostBreakdownOf_TotalWithoutThinking(prices, args) ==
    Eval(<<TokenCost(args[1], DictGet(prices, "input_token")),
           TokenCost(args[2], DictGet(prices, "output_token")),
           TokenCost(ThinkingArg(args), DictGetOr(prices, "thinking_token", NoPrice))>>,
         LAMBDA costs :
             [input_cost |-> costs[1], output_cost |-> costs[2],
              thinking_cost |-> costs[3],
              total_cost |-> TotalCost(<<costs[1], costs[2], DoubleZero>>)])

\* the dict calculate_cost returns, for a table with input and output prices
CostBreakdownOf(prices, args) ==
    Eval(<<TokenCost(args[1], DictGet(prices, "input_token")),
           TokenCost(args[2], DictGet(prices, "output_token")),
           TokenCost(ThinkingArg(args), DictGetOr(prices, "thinking_token", NoPrice))>>,
         LAMBDA costs :
             [input_cost |-> costs[1], output_cost |-> costs[2],
              thinking_cost |-> costs[3], total_cost |-> TotalCost(costs)])

\* the calls whose breakdown is computed: <<price table, arguments>>
CostCalls ==
    {<<ExamplePrices, a>> : a \in CostArgs}
        \cup {<<NoThinkingPrices, a>> : a \in CostArgs}

CostBreakdownTable == [c \in CostCalls |-> CostBreakdownOf(c[1], c[2])]

CostBreakdown(prices, args) == CostBreakdownTable[<<prices, args>>]

\* calculate_cost: self.prices['input_token'] and self.prices['output_token']
\* raise KeyError on a table without the key
CalculateCost(prices, args) ==
    IF ~DictHas(prices, "input_token") \/ ~DictHas(prices, "output_token")
    THEN [exc |-> "KeyError", ret |-> <<>>]
    ELSE [exc |-> "none", ret |-> CostBreakdown(prices, args)]

\* variant of UpdatePrices: the new table is merged into the old one
UpdatePrices_Merges(c, prices) ==
    [c EXCEPT !.prices =
        LET kept == SelectSeq(c.prices, LAMBDA kv : ~DictHas(prices, kv[1]))
        IN prices \o kept]

\* update_prices: self.prices = prices
UpdatePrices(c, prices) == [c EXCEPT !.prices = prices]

\* CostCalculator(prices)
NewCalculator(prices) == [prices |-> prices, returned |-> <<>>]

-----------------------------------------------------------------------------
(* SpecCost: a CostCalculator and the calls made on it                     *)

InitCost ==
    /\ \E prices \in PriceTables :
          /\ calculator = NewCalculator(prices)
          /\ events = << <<"new", prices, <<>> >> >>
    /\ counting = IdleCounting
    /\ mapper = IdleMapper
    /\ paragraphs_data = <<>>
    /\ packing = IdlePacking
    /\ environ = IdleEnviron
    /\ translator = IdleTranslator
    /\ trcall = IdleCall
    /\ book = NewBook
    /\ run = IdleRun
    /\ files = NoFiles
    /\ merging = IdleMerging

\* one calculate_cost call; the caller keeps the dict it is handed
CostCalculate ==
    /\ Len(events) <= MaxCostOps
    /\ \E args \in CostArgs :
          LET out == CalculateCost(calculator.prices, args)
          IN /\ calculator' =
                    IF out.exc = "none"
                    THEN [calculator EXCEPT !.returned = Append(@, out.ret)]
                    ELSE calculator
             /\ events' = Append(events, <<"calculate_cost", args, out>>)
    /\ UNCHANGED <<merging, counting, mapper, paragraphs_data, packing, environ,
                   translator, trcall, book, run, files>>

\* one update_prices call
CostUpdatePrices ==
    /\ Len(events) <= MaxCostOps
    /\ \E prices \in PriceTables :
          /\ calculator' = UpdatePrices(calculator, prices)
          /\ events' = Append(events, <<"update_prices", prices, <<>> >>)
    /\ UNCHANGED <<merging, counting, mapper, paragraphs_data, packing, environ,
                   translator, trcall, book, run, files>>

NextCost == CostCalculate \/ CostUpdatePrices

SpecCost == InitCost /\ [][NextCost]_vars

-----------------------------------------------------------------------------
(* Properties of the CostCalculator (SpecCost)                             *)

\* the price table in force when event k happens: that of the last
\* construction or update_prices before it
PricesInForce(k) ==
    events[CHOOSE j \in 1..(k - 1) :
               /\ events[j][1] \in {"new", "update_prices"}
               /\ \A i \in (j + 1)..(k - 1) : events[i][1] = "calculate_cost"][2]

\* the calculate_cost calls that returned, as indices of events
CostReturns ==
    {k \in 1..Len(events) :
        events[k][1] = "calculate_cost" /\ events[k][3].exc = "none"}

\* tokens / 1,000,000 times the price of each category and their sum
StatedBreakdown(prices, args) ==
    Eval(<<DoubleMul(DoubleOf(args[1], Million),
                     DoubleOf(DictGet(prices, "input_token")[1],
                              DictGet(prices, "input_token")[2])),
           DoubleMul(DoubleOf(args[2], Million),
                     DoubleOf(DictGet(prices, "output_token")[1],
                              DictGet(prices, "output_token")[2])),
           IF Len(args) = 3 /\ DictHas(prices, "thinking_token")
           THEN DoubleMul(DoubleOf(args[3], Million),
                          DoubleOf(DictGet(prices, "thinking_token")[1],
                                   DictGet(prices, "thinking_token")[2]))
           ELSE DoubleZero>>,
         LAMBDA parts :
             [input_cost |-> parts[1], output_cost |-> parts[2],
              thinking_cost |-> parts[3],
              total_cost |-> DoubleAdd(DoubleAdd(parts[1], parts[2]), parts[3])])

StatedBreakdowns == [c \in CostCalls |-> StatedBreakdown(c[1], c[2])]

\* the doubles 0.5, 1.2, 0.6 and 2.3
ExampleBreakdown ==
    [input_cost |-> DoubleOf(5, 10), output_cost |-> DoubleOf(12, 10),
     thinking_cost |-> DoubleOf(6, 10), total_cost |-> DoubleOf(23, 10)]

\* C17: every breakdown calculate_cost returns has, per category, tokens /
\* 1,000,000 times the price and as total the sum of the three, unrounded; an
\* omitted thinking count costs 0; a million tokens of each category at
\* prices 0.5, 1.2 and 0.6 cost 0.5, 1.2, 0.6 and in total 2.3.
C17_CostFormula ==
    \A k \in CostReturns :
        LET prices == PricesInForce(k)
            args == events[k][2]
            ret == events[k][3].ret
        IN /\ ret = StatedBreakdowns[<<prices, args>>]
           /\ Len(args) = 2 => ret.thinking_cost = DoubleZero
           /\ (prices = ExamplePrices /\ args = <<Million, Million, Million>>) =>
                  ret = ExampleBreakdown

\* the example call was made and returned, and so was a call without a
\* thinking count
C17_Witness ==
    /\ \E k \in CostReturns :
          /\ PricesInForce(k) = ExamplePrices
          /\ events[k][2] = <<Million, Million, Million>>
          /\ events[k][3].ret.total_cost = ExampleBreakdown.total_cost
    /\ \E k \in CostReturns :
          /\ events[k][2] = <<Million, Million>>
          /\ events[k][3].ret.total_cost # DoubleZero

\* C18: calculate_cost never raises for a missing price: every call returns,
\* and a category whose price is missing costs 0.
C18_MissingPriceIsZero ==
    \A k \in 1..Len(events) :
        events[k][1] = "calculate_cost" =>
            /\ events[k][3].exc = "none"
            /\ ~DictHas(PricesInForce(k), "input_token") =>
                   events[k][3].ret.input_cost = DoubleZero
            /\ ~DictHas(PricesInForce(k), "output_token") =>
                   events[k][3].ret.output_cost = DoubleZero
            /\ ~DictHas(PricesInForce(k), "thinking_token") =>
                   events[k][3].ret.thinking_cost = DoubleZero

\* the breakdowns returned so far, in order
ReturnedSoFar ==
    LET calls == SelectSeq(events, LAMBDA e :
                     e[1] = "calculate_cost" /\ e[3].exc = "none")
    IN [i \in 1..Len(calls) |-> calls[i][3].ret]

\* C19: the table of the calculator is the one given last, by the constructor
\* or by update_prices, whatever calculate_cost calls were made since; every
\* call computes from that table alone; the breakdowns handed out earlier
\* keep their values.
C19_UpdateReplacesTable ==
    /\ calculator.prices = PricesInForce(Len(events) + 1)
    /\ \A k \in 1..Len(events) :
          events[k][1] = "calculate_cost" =>
              events[k][3] = CalculateCost(PricesInForce(k), events[k][2])
    /\ calculator.returned = ReturnedSoFar

\* a call under the example table, an update to a table without a thinking
\* price, a call with thinking tokens that costs them at 0, the first
\* breakdown still held with its thinking cost
C19_Witness ==
    /\ Len(events) = 4
    /\ events[1] = <<"new", ExamplePrices, <<>> >>
    /\ events[2][1] = "calculate_cost"
    /\ events[2][2] = <<Million, Million, Million>>
    /\ events[3] = <<"update_prices", NoThinkingPrices, <<>> >>
    /\ events[4][1] = "calculate_cost"
    /\ events[4][2] = <<Million, Million, Million>>
    /\ events[4][3].ret.thinking_cost = DoubleZero
    /\ Len(calculator.returned) = 2
    /\ calculator.returned[1].thinking_cost = ExampleBreakdown.thinking_cost
    /\ calculator.prices = NoThinkingPrices

-----------------------------------------------------------------------------
(* TokenCounter.count_chunk_input_tokens                                   *)

\* rows of a paragraph count table; two rows may carry the same par_id
CountRows ==
    {[par_id |-> 0, token_count |-> 1], [par_id |-> 1, token_count |-> 2],
     [par_id |-> 0, token_count |-> 3]}

\* segmented_tokens_data: a dict with the key "paragraphs", or without it
SegmentedData(rows) == << <<"paragraphs", rows>> >>

\* prompt_tokens_data: with a token_count, or without
PromptData == { <<>>, << <<"token_count", 5>> >> }

\* the paragraph id lists of a chunk: id 2 is in no table
ChunkIdLists == SeqsUpTo(0..2, MaxChunkIds) \ {<<>>}

\* chunk mappings of at most two chunks, named as the mapper names them
GivenMappings ==
    {<<>>} \cup {<< <<1, a>> >> : a \in ChunkIdLists}
           \cup {<< <<1, a>>, <<2, b>> >> : a \in ChunkIdLists, b \in ChunkIdLists}

\* the mapper configurations behind a mapping: ceilings 2 and 4
CountMappers == {[max_output_token |-> 3, ratio |-> <<1, 1>>],
                 [max_output_token |-> 6, ratio |-> <<1, 1>>]}

\* the count table of a segmented file whose paragraph i has tokens[i] tokens
RowsOf(tokens) == [i \in 1..Len(tokens) |-> [par_id |-> i - 1, token_count |-> tokens[i]]]

RECURSIVE ParagraphTokens(_)
\* the lookup dict: for para in paragraphs: paragraph_tokens[par_id] = token_count
ParagraphTokens(rows) ==
    IF rows = <<>> THEN <<>>
    ELSE DictSet(ParagraphTokens(SubSeq(rows, 1, Len(rows) - 1)),
                 rows[Len(rows)].par_id, rows[Len(rows)].token_count)

\* variant of ChunkRecord: the prompt is not added to the total
ChunkRecord_WithoutPrompt(paragraph_tokens, prompt_token_count, paragraph_ids) ==
    LET chunk_paragraph_tokens ==
            SumSeq([j \in 1..Len(paragraph_ids) |->
                       DictGetOr(paragraph_tokens, paragraph_ids[j], 0)])
    IN [paragraph_ids |-> paragraph_ids,
        paragraph_count |-> Len(paragraph_ids),
        paragraph_tokens |-> chunk_paragraph_tokens,
        prompt_tokens |-> prompt_token_count,
        tot_input_tokens |-> chunk_paragraph_tokens]

\* result[chunk_name] of one chunk
ChunkRecord(paragraph_tokens, prompt_token_count, paragraph_ids) ==
    LET chunk_paragraph_tokens ==
            SumSeq([j \in 1..Len(paragraph_ids) |->
                       DictGetOr(paragraph_tokens, paragraph_ids[j], 0)])
    IN [paragraph_ids |-> paragraph_ids,
        paragraph_count |-> Len(paragraph_ids),
        paragraph_tokens |-> chunk_paragraph_tokens,
        prompt_tokens |-> prompt_token_count,
        tot_input_tokens |-> chunk_paragraph_tokens + prompt_token_count]

\* count_chunk_input_tokens: chunk name -> record, in the mapping's order
CountChunkInputTokens(segmented_tokens_data, prompt_tokens_data, chunk_mapping) ==
    LET paragraph_tokens ==
            ParagraphTokens(DictGetOr(segmented_tokens_data, "paragraphs", <<>>))
        prompt_token_count == DictGetOr(prompt_tokens_data, "token_count", 0)
    IN [i \in 1..Len(chunk_mapping) |->
           <<chunk_mapping[i][1],
             ChunkRecord(paragraph_tokens, prompt_token_count, chunk_mapping[i][2])>>]

\* the lines count_chunk_input_tokens prints or logs: the function has no
\* print and no logging call, so none, whatever the table and the mapping
CountChunkOutput(segmented_tokens_data, prompt_tokens_data, chunk_mapping) == <<>>

-----------------------------------------------------------------------------
(* SpecCount: one count_chunk_input_tokens call                            *)

\* the call with any table and any mapping
InitCountGiven ==
    /\ mapper = IdleMapper
    /\ paragraphs_data = <<>>
    /\ \E rows \in SeqsUpTo(CountRows, MaxCountRows), prompt \in PromptData,
          mapping \in GivenMappings, segmented \in BOOLEAN :
          counting = [pc |-> "called", source |-> "given",
                      segmented_tokens_data |->
                          IF segmented THEN SegmentedData(rows) ELSE <<>>,
                      prompt_tokens_data |-> prompt,
                      chunk_mapping |-> mapping,
                      output |-> <<>>,
                      result |-> <<>>]

\* the call as the cost estimator makes it: the mapping is the mapper's, from
\* the paragraphs of the table
InitCountMapped ==
    /\ mapper \in CountMappers
    /\ \E tokens \in SeqsUpTo(TokenCounts, MaxPar), prompt \in PromptData :
          /\ paragraphs_data = Paragraphs(tokens)
          /\ counting = [pc |-> "called", source |-> "mapped",
                         segmented_tokens_data |-> SegmentedData(RowsOf(tokens)),
                         prompt_tokens_data |-> prompt,
                         chunk_mapping |-> MapChunkParagraphs(mapper, Paragraphs(tokens)),
                         output |-> <<>>,
                         result |-> <<>>]

InitCount ==
    /\ InitCountGiven \/ InitCountMapped
    /\ calculator = IdleCalculator
    /\ packing = IdlePacking
    /\ environ = IdleEnviron
    /\ translator = IdleTranslator
    /\ trcall = IdleCall
    /\ book = NewBook
    /\ run = IdleRun
    /\ files = NoFiles
    /\ events = <<>>
    /\ merging = IdleMerging

CountCall ==
    /\ counting.pc = "called"
    /\ counting' = [counting EXCEPT
                       !.pc = "returned",
                       !.output = @ \o CountChunkOutput(counting.segmented_tokens_data,
                                                        counting.prompt_tokens_data,
                                                        counting.chunk_mapping),
                       !.result = CountChunkInputTokens(counting.segmented_tokens_data,
                                                        counting.prompt_tokens_data,
                                                        counting.chunk_mapping)]
    /\ UNCHANGED <<merging, calculator, mapper, paragraphs_data, packing, environ,
                   translator, trcall, book, run, files, events>>

NextCount == CountCall

SpecCount == InitCount /\ [][NextCount]_vars

-----------------------------------------------------------------------------
(* Properties of count_chunk_input_tokens (SpecCount)                      *)

\* the rows of the table given, none when the key "paragraphs" is missing
TableRows ==
    IF counting.segmented_tokens_data = <<>> THEN <<>>
    ELSE counting.segmented_tokens_data[1][2]

\* the count the table gives an id: that of its last row for the id, else 0
CountOfId(id) ==
    IF \E r \in 1..Len(TableRows) : TableRows[r].par_id = id
    THEN TableRows[CHOOSE r \in 1..Len(TableRows) :
                       /\ TableRows[r].par_id = id
                       /\ \A q \in (r + 1)..Len(TableRows) : TableRows[q].par_id # id
                  ].token_count
    ELSE 0

\* the prompt count given, 0 when there is none
PromptCount ==
    IF counting.prompt_tokens_data = <<>> THEN 0
    ELSE counting.prompt_tokens_data[1][2]

\* C20: the result has one record per chunk of the mapping, in its order;
\* paragraph_tokens is the sum of the table's counts of the chunk's ids, an
\* id without a row counting 0; prompt_tokens is the prompt count and
\* tot_input_tokens their sum. For the mapper's mapping of the table's
\* paragraphs, the tot_input_tokens of all chunks add up to the tokens of all
\* paragraphs plus the prompt count once per chunk.
C20_ChunkInputTokens ==
    counting.pc = "returned" =>
        LET result == counting.result
            mapping == counting.chunk_mapping
        IN /\ Len(result) = Len(mapping)
           /\ \A i \in 1..Len(mapping) :
                 LET ids == mapping[i][2]
                     rec == result[i][2]
                 IN /\ result[i][1] = mapping[i][1]
                    /\ rec.paragraph_ids = ids
                    /\ rec.paragraph_count = Len(ids)
                    /\ rec.paragraph_tokens
                           = SumSeq([j \in 1..Len(ids) |-> CountOfId(ids[j])])
                    /\ rec.prompt_tokens = PromptCount
                    /\ rec.tot_input_tokens = rec.paragraph_tokens + rec.prompt_tokens
           /\ counting.source = "mapped" =>
                 SumSeq([i \in 1..Len(result) |-> result[i][2].tot_input_tokens])
                     = SumSeq([i \in 1..Len(paragraphs_data) |->
                                  paragraphs_data[i].token_count])
                           + Len(mapping) * PromptCount

\* a returned call on a mapping of two chunks, the first with an id of the
\* table and an id without a row, under a prompt of 5 tokens
C20_Witness ==
    /\ counting.pc = "returned"
    /\ counting.source = "given"
    /\ Len(counting.result) = 2
    /\ counting.chunk_mapping[1][2] = <<0, 2>>
    /\ TableRows = <<[par_id |-> 0, token_count |-> 1], [par_id |-> 0, token_count |-> 3]>>
    /\ counting.result[1][2].paragraph_tokens = 3
    /\ counting.result[1][2].tot_input_tokens = 8

-----------------------------------------------------------------------------
(* TokenCounter.estimate_output_thinking_tokens                            *)

\* output_input_ratio and thinking_input_ratio values, <<numerator,
\* denominator>> of the decimal written: 1.15, 2.0, 0.5 and 3.6
EstRatios == {<<115, 100>>, <<2, 1>>, <<1, 2>>, <<36, 10>>}

\* thinking_input_ratio: None is <<>>
ThinkingRatios == {<<>>, <<1, 2>>, <<36, 10>>}

\* tot_input_tokens values of a chunk record
EstInputTokens == {0, 3, 100, 200}

\* chunk records as dicts: with tot_input_tokens, or without the key
EstRecords ==
    {<< <<"paragraph_count", 1>>, <<"tot_input_tokens", t>> >> : t \in EstInputTokens}
        \cup {<< <<"paragraph_count", 1>> >>}

\* chunk_input_tokens_data: chunk name -> record, for chunks 1..k
EstData ==
    UNION {{[i \in 1..k |-> <<i, recs[i]>>] : recs \in [1..k -> EstRecords]} :
              k \in 0..MaxEstChunks}

\* int(tot_input_tokens * ratio), in double arithmetic
EstimateOf(tot_input_tokens, ratio) ==
    DoubleToInt(DoubleMul(DoubleOf(tot_input_tokens, 1), DoubleOf(ratio[1], ratio[2])))

\* the <<tot_input_tokens, ratio>> pairs the calls meet
EstimateInputs ==
    {<<t, r>> : t \in EstInputTokens, r \in EstRatios} \cup {<<0, <<1, 1>>>>}

EstimateTable == [c \in EstimateInputs |-> EstimateOf(c[1], c[2])]

Estimate(tot_input_tokens, ratio) == EstimateTable[<<tot_input_tokens, ratio>>]

\* the loop body: the estimates that are set in chunk_data, as <<key, value>>
EstimatesOf(chunk_data, output_input_ratio, thinking_input_ratio) ==
    << <<"tot_output_tokens", output_input_ratio>> >>
        \o (IF thinking_input_ratio # <<>>
            THEN << <<"tot_thinking_tokens", thinking_input_ratio>> >>
            ELSE <<>>)

RECURSIVE SetEstimates(_, _, _)
\* chunk_data[key] = int(tot_input_tokens * ratio) for every <<key, ratio>>
SetEstimates(chunk_data, tot_input_tokens, todo) ==
    IF todo = <<>> THEN chunk_data
    ELSE SetEstimates(DictSet(chunk_data, todo[1][1],
                              Estimate(tot_input_tokens, todo[1][2])),
                      tot_input_tokens, Tail(todo))

\* estimate_output_thinking_tokens on a deep copy of the data: the result
EstimateOutputThinkingTokens(chunk_input_tokens_data, output_input_ratio, thinking_input_ratio) ==
    [i \in 1..Len(chunk_input_tokens_data) |->
        <<chunk_input_tokens_data[i][1],
          SetEstimates(chunk_input_tokens_data[i][2],
                       DictGetOr(chunk_input_tokens_data[i][2], "tot_input_tokens", 0),
                       EstimatesOf(chunk_input_tokens_data[i][2], output_input_ratio,
                                   thinking_input_ratio))>>]

-----------------------------------------------------------------------------
(* SpecEst: one estimate_output_thinking_tokens call                       *)

InitEst ==
    /\ \E data \in EstData, out_ratio \in EstRatios, th_ratio \in ThinkingRatios :
          counting = [pc |-> "called",
                      chunk_input_tokens_data |-> data,
                      passed |-> data,
                      output_input_ratio |-> out_ratio,
                      thinking_input_ratio |-> th_ratio,
                      result |-> <<>>]
    /\ mapper = IdleMapper
    /\ paragraphs_data = <<>>
    /\ calculator = IdleCalculator
    /\ packing = IdlePacking
    /\ environ = IdleEnviron
    /\ translator = IdleTranslator
    /\ trcall = IdleCall
    /\ book = NewBook
    /\ run = IdleRun
    /\ files = NoFiles
    /\ events = <<>>
    /\ merging = IdleMerging

\* the call: result is built on copy.deepcopy of the argument, so the
\* caller's object chunk_input_tokens_data keeps its value (passed is the
\* value it had when the call was made)
EstCall ==
    /\ counting.pc = "called"
    /\ counting' = [counting EXCEPT
                       !.pc = "returned",
                       !.result = EstimateOutputThinkingTokens(
                                      counting.chunk_input_tokens_data,
                                      counting.output_input_ratio,
                                      counting.thinking_input_ratio)]
    /\ UNCHANGED <<merging, calculator, mapper, paragraphs_data, packing, environ,
                   translator, trcall, book, run, files, events>>

NextEst == EstCall

SpecEst == InitEst /\ [][NextEst]_vars

-----------------------------------------------------------------------------
(* Properties of estimate_output_thinking_tokens (SpecEst)                 *)

\* floor(tokens * ratio) for tokens >= 0 and a ratio >= 0
FloorOfProduct(tokens, ratio) == (tokens * ratio[1]) \div ratio[2]

\* the record without the two estimates
WithoutEstimates(rec) ==
    SelectSeq(rec, LAMBDA kv : kv[1] \notin {"tot_output_tokens", "tot_thinking_tokens"})

\* C21: every record of the result has tot_output_tokens = floor(tot_input_tokens
\* * output_input_ratio), and tot_thinking_tokens = floor(tot_input_tokens *
\* thinking_input_ratio) exactly when a thinking ratio is given; its other
\* fields are those of the record given, and the data given is not modified.
C21_EstimatesAreFloors ==
    counting.pc = "returned" =>
        /\ Len(counting.result) = Len(counting.passed)
        /\ counting.chunk_input_tokens_data = counting.passed
        /\ \A i \in 1..Len(counting.passed) :
              LET given == counting.passed[i][2]
                  rec == counting.result[i][2]
                  tot == DictGetOr(given, "tot_input_tokens", 0)
              IN /\ counting.result[i][1] = counting.passed[i][1]
                 /\ WithoutEstimates(rec) = given
                 /\ DictHas(rec, "tot_output_tokens")
                 /\ DictHas(rec, "tot_thinking_tokens")
                        <=> counting.thinking_input_ratio # <<>>
                 /\ DictGet(rec, "tot_output_tokens")
                        = FloorOfProduct(tot, counting.output_input_ratio)
                 /\ counting.thinking_input_ratio # <<>> =>
                        DictGet(rec, "tot_thinking_tokens")
                            = FloorOfProduct(tot, counting.thinking_input_ratio)

-----------------------------------------------------------------------------
(* TokenCounter.count_tokens and count_tokens_for_segmented_file           *)

\* the provider given to TokenCounter
CounterProviders == {"gemini", "deepseek", "openai"}

\* TokenCounter(model_name, provider, api_key, base_url); tiktoken tells
\* whether the tiktoken package can be imported in the environment
TokenCounters ==
    {[provider |-> p, api_key |-> k, base_url |-> u, tiktoken |-> t] :
        p \in CounterProviders, k \in {"none", "KEY"}, u \in {"none", "URL"},
        t \in BOOLEAN}

\* the sentences of a paragraph of the segmented file
SentenceLists == {<<>>, << <<"a">> >>, << <<"a">>, <<"b">> >>}

\* the segmented file: paragraph i has par_id i
SegmentedFiles ==
    UNION {{[i \in 1..k |-> [par_id |-> i, sentences |-> ss[i]]] :
               ss \in [1..k -> SentenceLists]} : k \in 0..MaxSegPar}

\* what the countTokens request does: requests.post times out, raise_for_status
\* raises, response.json() raises, or the body is the JSON object given
RemoteFailures == {<<"Timeout">>, <<"HTTPError">>, <<"JSONDecodeError">>}

RemoteAnswers ==
    {<<"json", << <<"totalTokens", n>> >> >> : n \in 1..MaxSegCount} \cup {<<"json", <<>>>>}

RemoteOutcomes == RemoteFailures \cup RemoteAnswers

\* len(encoding.encode(text)): the tokenizer is a deterministic function of the
\* text; here the number of parts of the text that are not separators
TiktokenCount(text) == Len(SelectSeq(text, LAMBDA part : part # " "))

\* what a call returns: a value, or an exception; with the lines printed and
\* the number of requests posted
Returned(value, output, requests) ==
    [raised |-> FALSE, value |-> value, error |-> "none", output |-> output,
     requests |-> requests]

Raised(error, output, requests) ==
    [raised |-> TRUE, value |-> 0, error |-> error, output |-> output,
     requests |-> requests]

\* _estimate_tokens_tiktoken, called after output was printed and requests made
EstimateTokensTiktoken(self, text, output, requests) ==
    IF self.tiktoken
    THEN Returned(TiktokenCount(text), output, requests)
    ELSE Raised("ImportError", output, requests)

\* the except branch of count_tokens_gemini removed: the exception leaves
CountTokensGeminiExcept_Propagates(self, text, remote) ==
    Raised(remote[1], <<>>, 1)

\* the except branch of count_tokens_gemini
CountTokensGeminiExcept(self, text, remote) ==
    EstimateTokensTiktoken(self, text,
        <<"Warning: Failed to count tokens with Gemini API", "Falling back to tiktoken estimation...">>,
        1)

\* count_tokens_gemini
CountTokensGemini(self, text, remote) ==
    IF self.api_key = "none" \/ self.base_url = "none"
    THEN EstimateTokensTiktoken(self, text,
             <<"Warning: API key or base URL not provided for Gemini. Using tiktoken estimation.">>,
             0)
    ELSE IF remote \in RemoteFailures
    THEN CountTokensGeminiExcept(self, text, remote)
    ELSE Returned(DictGetOr(remote[2], "totalTokens", 0), <<>>, 1)

\* count_tokens (count_tokens_deepseek is the tiktoken estimate)
CountTokens(self, text, remote) ==
    IF self.provider = "gemini" THEN CountTokensGemini(self, text, remote)
    ELSE EstimateTokensTiktoken(self, text, <<>>, 0)

\* " ".join(sentences)
ParagraphText(para) == Join(" ", para.sentences)

\* the largest total of the token counts of a file
MaxSegTotal == MaxSegPar * MaxSegCount

\* total_input_tokens / len(paragraphs), in double arithmetic
AverageOf(total, n) == DoubleDiv(DoubleOf(total, 1), DoubleOf(n, 1))

AverageInputs == {<<t, n>> : t \in 0..MaxSegTotal, n \in 1..MaxSegPar} \cup {<<0, 1>>}

AverageTable == [c \in AverageInputs |-> AverageOf(c[1], c[2])]

\* the conditional expression without its else: the division is always made
AveragePerParagraph_Unguarded(total, n) ==
    IF n = 0 THEN [raised |-> TRUE, value |-> 0]
    ELSE [raised |-> FALSE, value |-> AverageTable[<<total, n>>]]

\* total_input_tokens / len(paragraphs) if paragraphs else 0
AveragePerParagraph(total, n) ==
    IF n = 0 THEN [raised |-> FALSE, value |-> 0]
    ELSE [raised |-> FALSE, value |-> AverageTable[<<total, n>>]]

\* the result dictionary with its summary statistics
SegmentedResult(self, file_path, paragraphs, rows, total, average) ==
    [model_name |-> "model", provider |-> self.provider, source_file |-> file_path,
     paragraphs |-> rows, total_input_tokens |-> total,
     total_paragraphs |-> Len(paragraphs),
     average_tokens_per_paragraph |-> average]

\* the path the result is saved to: the one given, or one made from file_path
\* (a path is <<base name, extension>>)
OutputFilePath(self, file_path, output_file_path) ==
    IF output_file_path = <<>>
    THEN <<file_path[1], "_token_counts_", self.provider, ".json">>
    ELSE output_file_path

SegFilePath == <<"book", ".json">>

-----------------------------------------------------------------------------
(* SpecSeg: count_tokens_for_segmented_file, one paragraph per step        *)

InitSeg ==
    /\ \E self \in TokenCounters, paragraphs \in SegmentedFiles,
          output_file_path \in {<<>>, <<"out", ".json">>} :
          counting = [pc |-> "counting",
                      self |-> self,
                      file_path |-> SegFilePath,
                      output_file_path |-> output_file_path,
                      paragraphs |-> paragraphs,
                      rows |-> <<>>,
                      total_input_tokens |-> 0,
                      calls |-> <<>>,
                      output |-> <<>>,
                      requests |-> 0,
                      saved |-> <<>>,
                      error |-> "none",
                      result |-> <<>>]
    /\ mapper = IdleMapper
    /\ paragraphs_data = <<>>
    /\ calculator = IdleCalculator
    /\ packing = IdlePacking
    /\ environ = IdleEnviron
    /\ translator = IdleTranslator
    /\ trcall = IdleCall
    /\ book = NewBook
    /\ run = IdleRun
    /\ files = NoFiles
    /\ events = <<>>
    /\ merging = IdleMerging

\* one iteration of the loop over the paragraphs; calls records the
\* count_tokens call made: its text, what the remote did and what it gave
SegCount ==
    /\ counting.pc = "counting"
    /\ Len(counting.rows) < Len(counting.paragraphs)
    /\ \E remote \in RemoteOutcomes :
          LET para == counting.paragraphs[Len(counting.rows) + 1]
              paragraph_text == ParagraphText(para)
              got == CountTokens(counting.self, paragraph_text, remote)
              call == [text |-> paragraph_text, remote |-> remote, got |-> got]
          IN counting' =
                 IF got.raised
                 THEN [counting EXCEPT
                          !.pc = "raised",
                          !.error = got.error,
                          !.calls = Append(@, call),
                          !.output = @ \o got.output,
                          !.requests = @ + got.requests]
                 ELSE [counting EXCEPT
                          !.rows = Append(@, [par_id |-> para.par_id,
                                              token_count |-> got.value,
                                              text |-> paragraph_text]),
                          !.total_input_tokens = @ + got.value,
                          !.calls = Append(@, call),
                          !.output = @ \o got.output,
                          !.requests = @ + got.requests]
    /\ UNCHANGED <<merging, calculator, mapper, paragraphs_data, packing, environ,
                   translator, trcall, book, run, files, events>>

\* after the loop: the summary statistics, the file saved, the result returned
SegFinish ==
    /\ counting.pc = "counting"
    /\ Len(counting.rows) = Len(counting.paragraphs)
    /\ LET average == AveragePerParagraph(counting.total_input_tokens,
                                          Len(counting.paragraphs))
           result == SegmentedResult(counting.self, counting.file_path,
                                     counting.paragraphs, counting.rows,
                                     counting.total_input_tokens, average.value)
           path == OutputFilePath(counting.self, counting.file_path,
                                  counting.output_file_path)
       IN counting' =
              IF average.raised
              THEN [counting EXCEPT !.pc = "raised", !.error = "ZeroDivisionError"]
              ELSE [counting EXCEPT
                       !.pc = "returned",
                       !.result = result,
                       !.saved = << <<path, result>> >>,
                       !.output = @ \o <<"Token counts saved to", "Total tokens",
                                         "Total paragraphs",
                                         "Average tokens per paragraph">>]
    /\ UNCHANGED <<merging, calculator, mapper, paragraphs_data, packing, environ,
                   translator, trcall, book, run, files, events>>

NextSeg == SegCount \/ SegFinish

SpecSeg == InitSeg /\ [][NextSeg]_vars

-----------------------------------------------------------------------------
(* Properties of count_tokens_for_segmented_file (SpecSeg)                 *)

\* the double nearest to total / count
StatedAverages == [c \in AverageInputs |-> DoubleOf(c[1], c[2])]

\* C22: the result's total is the sum of the paragraphs' token counts, its
\* count the number of paragraphs and its average total / count; for no
\* paragraphs it is total 0, count 0, average 0, and the call never raises a
\* division error.
C22_Aggregation ==
    /\ counting.pc = "raised" => counting.error # "ZeroDivisionError"
    /\ counting.pc = "returned" =>
          LET r == counting.result
              n == Len(counting.paragraphs)
          IN /\ Len(r.paragraphs) = n
             /\ r.total_input_tokens = SumSeq([i \in 1..n |-> r.paragraphs[i].token_count])
             /\ r.total_paragraphs = n
             /\ IF n = 0
                THEN r.total_input_tokens = 0 /\ r.average_tokens_per_paragraph = 0
                ELSE r.average_tokens_per_paragraph
                         = StatedAverages[<<r.total_input_tokens, n>>]

\* three paragraphs' worth: a result whose average is not a whole number
C22_Witness ==
    /\ counting.pc = "returned"
    /\ Len(counting.paragraphs) = 2
    /\ counting.result.total_input_tokens = 3

\* the empty file returned zeros
C22_WitnessEmpty ==
    /\ counting.pc = "returned"
    /\ counting.paragraphs = <<>>
    /\ counting.result.average_tokens_per_paragraph = 0

\* the lines count_tokens_gemini prints when it degrades to the estimate
WarningLines ==
    {"Warning: API key or base URL not provided for Gemini. Using tiktoken estimation.",
     "Warning: Failed to count tokens with Gemini API"}

\* the authoritative count was not available to the call
GeminiUnavailable(call) ==
    /\ counting.self.provider = "gemini"
    /\ \/ counting.self.api_key = "none"
       \/ counting.self.base_url = "none"
       \/ call.remote \in RemoteFailures

AuthoritativeResults(self, file_path, paragraphs) ==
    {SegmentedResult(self, file_path, paragraphs,
         [i \in 1..Len(paragraphs) |->
             [par_id |-> paragraphs[i].par_id, token_count |-> counts[i],
              text |-> ParagraphText(paragraphs[i])]],
         SumSeq(counts),
         AveragePerParagraph(SumSeq(counts), Len(paragraphs)).value) :
       counts \in [1..Len(paragraphs) -> 1..MaxSegCount]}

\* C25: a Gemini count that degraded to the estimate is told apart from an
\* authoritative one by the result: what is returned and saved after a
\* fallback differs from everything an execution over the same paragraphs
\* answered by the remote endpoint returns.
C25_FallbackIsTagged ==
    /\ counting.pc = "returned"
    /\ counting.self.provider = "gemini"
    /\ \E i \in 1..Len(counting.calls) : GeminiUnavailable(counting.calls[i])
    => /\ counting.result
              \notin AuthoritativeResults(counting.self, counting.file_path,
                                          counting.paragraphs)
       /\ \A i \in 1..Len(counting.saved) :
              counting.saved[i][2]
                  \notin AuthoritativeResults(counting.self, counting.file_path,
                                              counting.paragraphs)

\* the mapping of the call names a paragraph id that has no row in the table
MappingNamesAbsentId ==
    \E i \in 1..Len(counting.chunk_mapping) :
        \E j \in 1..Len(counting.chunk_mapping[i][2]) :
            \A r \in 1..Len(TableRows) :
                TableRows[r].par_id # counting.chunk_mapping[i][2][j]

\* C24: a chunk mapping that names a paragraph id absent from the token count
\* table does not abort count_chunk_input_tokens, and the call emits a warning
\* about it.
C24_AbsentIdIsWarned ==
    counting.pc = "returned" /\ MappingNamesAbsentId =>
        /\ Len(counting.result) = Len(counting.chunk_mapping)
        /\ counting.output # <<>>

-----------------------------------------------------------------------------
(* The monitoring file (Spec)                                              *)

\* the chunk mapping read back from the monitoring file
MappingReadBack ==
    [i \in 1..Len(files.monitoring) |->
        <<files.monitoring[i].chunk_id, files.monitoring[i].paragraphs_ids>>]

\* C26: the monitoring file written at the end of run gives back the chunk
\* mapping (the chunk names in order, each with its paragraph ids in order)
\* and, for every chunk translated successfully, the usage record (prompt,
\* completion, thinking and total tokens) of its successful call.
C26_MonitoringRoundTrip ==
    run.pc = "done" =>
        /\ MappingReadBack = run.chunk_mapping
        /\ \A i \in 1..Len(files.monitoring) :
              LET entry == files.monitoring[i]
              IN FinalSuccess(entry.chunk_id) =>
                    \E field \in DOMAIN entry :
                        /\ field \notin {"chunk_id", "translated_chunk", "paragraphs_ids"}
                        /\ entry[field] = LastResult(entry.chunk_id).actual_tokens

\* the mapping part of C26 alone
MonitoringKeepsMapping == run.pc = "done" => MappingReadBack = run.chunk_mapping

-----------------------------------------------------------------------------
(* Greedy packing (SpecMap)                                                *)

\* C27: in the mapping map_chunk_paragraphs returns, the token sum of every
\* chunk but the last plus the token count of the first paragraph of the next
\* chunk is at least max_input_tokens: no chunk is closed while the next
\* paragraph would fit under the strict ceiling.
C27_GreedyMaximal ==
    packing.pc = "returned" =>
        \A k \in 1..(Len(packing.chunks) - 1) :
            ChunkTokenSum(packing.chunks[k][2])
                + TokenCountOf(packing.chunks[k + 1][2][1])
                    >= CalculateMaxInputToken(mapper)

\* a returned mapping whose first chunk holds two paragraphs and was closed
\* by a third that would have taken it strictly above the ceiling
C27_Witness ==
    /\ packing.pc = "returned"
    /\ Len(packing.chunks) = 2
    /\ Len(packing.chunks[1][2]) = 2
    /\ CalculateMaxInputToken(mapper) > 0
    /\ ChunkTokenSum(packing.chunks[1][2]) + TokenCountOf(packing.chunks[2][2][1])
           > CalculateMaxInputToken(mapper)

-----------------------------------------------------------------------------
(* SpecAgain: BookTranslator.run called twice on one instance              *)

\* run() is called again after it returned. Its locals start afresh; nothing
\* in run assigns the totals before the loops add to them, so book is as the
\* first run left it. The history restarts with a marker that carries the
\* totals at the start of the second run.
RunAgain ==
    /\ run.pc = "done"
    /\ \A i \in 1..Len(events) : events[i][1] # "run"
    /\ run' = RunStart
    /\ events' = << <<"run", book, <<>>>> >>
    /\ UNCHANGED <<merging, calculator, counting, mapper, paragraphs_data, packing, environ,
                   translator, trcall, book, files>>

NextAgain == Next \/ RunAgain

SpecAgain == Init /\ [][NextAgain]_vars

\* the run in progress is the second one
SecondRun == events # <<>> /\ events[1][1] = "run"

\* C28: the totals reported at the end of a second run on the same instance
\* are those of the second run's successful calls alone.
C28_TotalsScopedToRun ==
    run.pc = "done" /\ SecondRun =>
        /\ book.tot_input_tokens = SuccessUsage("prompt_tokens")
        /\ book.tot_output_tokens = SuccessUsage("completion_tokens")

\* the totals of the second run are the first run's plus its own
TotalsCarryOver ==
    run.pc = "done" /\ SecondRun =>
        /\ book.tot_input_tokens
               = events[1][2].tot_input_tokens + SuccessUsage("prompt_tokens")
        /\ book.tot_output_tokens
               = events[1][2].tot_output_tokens + SuccessUsage("completion_tokens")

-----------------------------------------------------------------------------
(* Connection settings after a fallback (SpecTr)                           *)

\* the last call met a content block, both _switch_model calls returned (no
\* exception reached the except branch of the fallback) and the translator is
\* back on the model and provider it had before the call
SwitchedBack ==
    /\ trcall.n > 0
    /\ trcall.before.provider = "gemini"
    /\ trcall.scenario[1].kind = "block"
    /\ trcall.result.error[1]
           # "Gemini blocked content and DeepSeek fallback failed with exception"
    /\ translator.model_name = trcall.before.model_name
    /\ translator.provider = trcall.before.provider

\* C29: after a content-block fallback has completed and the translator has
\* switched back, its api_key, base_url and headers are those it had before
\* the call, whether the key was passed explicitly or taken from the
\* environment.
C29_SwitchBackRestoresConnection ==
    SwitchedBack =>
        /\ translator.api_key = trcall.before.api_key
        /\ translator.base_url = trcall.before.base_url
        /\ translator.headers = trcall.before.headers

\* the key part of C29 alone
SwitchBackKeepsKey == SwitchedBack => translator.api_key = trcall.before.api_key

\* the endpoint part of C29 alone
SwitchBackKeepsBaseUrl == SwitchedBack => translator.base_url = trcall.before.base_url

-----------------------------------------------------------------------------
(* MergeAudioChunks.merge_chunks                                           *)

\* an audio file of the input directory: AudioSegment.from_file raises for
\* it, or gives a segment of len milliseconds
AudioFiles ==
    {[loads |-> FALSE, len |-> 0]} \cup {[loads |-> TRUE, len |-> d] : d \in 0..MaxAudioLen}

\* the sorted list of the .wav (else .mp3) files found
AudioFileLists == SeqsUpTo(AudioFiles, MaxAudio)

\* target_duration_minutes * 60 * 1000
TargetDurations == 1..MaxTarget

\* the locals before the loop
MergeStart(audio_files, target_duration_ms) ==
    [pc |-> "loop", audio_files |-> audio_files,
     target_duration_ms |-> target_duration_ms, i |-> 1,
     current_duration |-> 0, file_counter |-> 1,
     files_in_current_merge |-> <<>>, written |-> <<>>, returned |-> 0]

\* export of the current merged audio as merged part number file_counter
MergeExport(st) ==
    [st EXCEPT !.written = Append(@, <<st.file_counter, st.files_in_current_merge>>)]

\* the body of the try for a file that loads
MergeAdd(st, audio) ==
    LET added == [st EXCEPT !.files_in_current_merge = Append(@, st.i),
                            !.current_duration = @ + audio.len]
    IN IF added.current_duration >= st.target_duration_ms
       THEN [MergeExport(added) EXCEPT !.current_duration = 0,
                                       !.file_counter = @ + 1,
                                       !.files_in_current_merge = <<>>]
       ELSE added

\* after the loop: the remaining audio is saved, file_counter is returned
MergeFlush(st) ==
    [(IF st.current_duration > 0 THEN MergeExport(st) ELSE st)
        EXCEPT !.pc = "returned", !.returned = st.file_counter]

-----------------------------------------------------------------------------
(* SpecMerge: merge_chunks, one audio file per step                        *)

InitMerge ==
    /\ \E audio_files \in AudioFileLists, target \in TargetDurations :
          merging = MergeStart(audio_files, target)
    /\ counting = IdleCounting
    /\ mapper = IdleMapper
    /\ paragraphs_data = <<>>
    /\ calculator = IdleCalculator
    /\ packing = IdlePacking
    /\ environ = IdleEnviron
    /\ translator = IdleTranslator
    /\ trcall = IdleCall
    /\ book = NewBook
    /\ run = IdleRun
    /\ files = NoFiles
    /\ events = <<>>

\* neither .wav nor .mp3 files: 0 is returned
MergeNoFiles ==
    /\ merging.pc = "loop" /\ merging.audio_files = <<>>
    /\ merging' = [merging EXCEPT !.pc = "returned", !.returned = 0]
    /\ UNCHANGED <<counting, calculator, mapper, paragraphs_data, packing, environ,
                   translator, trcall, book, run, files, events>>

\* one iteration of the loop: a file that fails to load is skipped
MergeFile ==
    /\ merging.pc = "loop" /\ merging.audio_files # <<>>
    /\ merging.i <= Len(merging.audio_files)
    /\ LET audio == merging.audio_files[merging.i]
       IN merging' = [(IF audio.loads THEN MergeAdd(merging, audio) ELSE merging)
                         EXCEPT !.i = merging.i + 1]
    /\ UNCHANGED <<counting, calculator, mapper, paragraphs_data, packing, environ,
                   translator, trcall, book, run, files, events>>

\* the end of merge_chunks
MergeReturn ==
    /\ merging.pc = "loop" /\ merging.audio_files # <<>>
    /\ merging.i > Len(merging.audio_files)
    /\ merging' = MergeFlush(merging)
    /\ UNCHANGED <<counting, calculator, mapper, paragraphs_data, packing, environ,
                   translator, trcall, book, run, files, events>>

NextMerge == MergeNoFiles \/ MergeFile \/ MergeReturn

SpecMerge == InitMerge /\ [][NextMerge]_vars

-----------------------------------------------------------------------------
(* Properties of merge_chunks (SpecMerge)                                  *)

\* C30: merge_chunks returns the number of merged files it wrote, whatever
\* the durations of the chunks and the target duration, also when the last
\* chunk completes a merged file and when no chunk loads.
C30_ReturnsFilesWritten ==
    merging.pc = "returned" => merging.returned = Len(merging.written)

\* what merge_chunks returns: one more than the files written, unless audio
\* remained to flush after the loop or there was no file at all
ReturnedCount ==
    merging.pc = "returned" =>
        merging.returned =
            IF merging.audio_files = <<>> THEN 0
            ELSE IF merging.current_duration > 0 THEN Len(merging.written)
            ELSE Len(merging.written) + 1

====
